---- MODULE Spec2Model ----
(***************************************************************************)
(* Verification model of the configuration validators of the repository:   *)
(*   src/config/layers/validate_layers.py   (layer validator)              *)
(*   src/config/models/validate.py          (model validator)              *)
(*   src/config/styles/validate_styles.py   (style validator)              *)
(* and of the crawler src/validation/edr_product_dump.py (EDR dumper).     *)
(* Each script is a sequential program: main() lists the files of its      *)
(* directory, validates them one after the other and exits with a status.  *)
(* A parsed YAML/JSON document is a Python value; Python values are        *)
(* modelled as tagged records so that isinstance(), truthiness and the     *)
(* `in` operator are computed the way the interpreter computes them.       *)
(***************************************************************************)
EXTENDS Integers, Sequences, FiniteSets, TLC

VARIABLES
    tool,            \* the program the process runs: "layers", "models", "styles", "dumper"
    argv,            \* model validator: the file arguments of the command line
    dir,             \* the *.yaml / *.json names the directory holds (names are ranks in sorted order)
    disk,            \* name -> content, in the runs that are repeated on unchanged files
    pc,              \* position of main(): "start", "loop", "summary", "exited", "crashed"
    files,           \* main(): the sorted list of files to validate
    idx,             \* main(): number of files of `files` already validated
    all_layer_ids,   \* layer validator: layer id -> name of the file that owns it
    total_errors,    \* main(): running sum of error counts
    total_warnings,  \* main(): running sum of warning counts
    exit_code,       \* process exit status, -1 while the process runs
    reported,        \* history: per validated file, what the validator reported for it
    call,            \* the last validate_file()/validate() call: its input and what it returned
    first_seen,      \* history: layer id -> first file in which a layer declared it
    any_error,       \* history: some file of the run had an error recorded
    any_warning,     \* history: some file of the run had a warning recorded
    first,           \* history: what the first run ended with, once the process is run again
    fn_in,           \* input of the function under test (function specifications)
    fn_out,          \* its result
    api,             \* EDR dumper: what the EDR API advertises and how it answers
    args,            \* EDR dumper: the options of the command line
    stats,           \* EDR dumper: self.stats
    results,         \* EDR dumper: self.results
    crawl            \* EDR dumper: position of run() and history of its query_product calls

vars == <<tool, argv, dir, disk, pc, files, idx, all_layer_ids, total_errors,
          total_warnings, exit_code, reported, call, first_seen, any_error,
          any_warning, first, fn_in, fn_out, api, args, stats, results, crawl>>
\* what a run is given: the validator started, its command line, the names in
\* its directory and, where the files are kept, their contents
environment == <<tool, argv, dir, disk>>
\* the state of the EDR dumper, which no validator touches
dumper == <<api, args, stats, results, crawl>>

(***************************************************************************)
(* Bounds of the model.                                                    *)
(***************************************************************************)
MaxFiles == 2
MaxLayers == 2
MaxArgs == 2
\* entries of a list of a model document (levels, cycles, requires)
MaxEntries == 2
\* entries of the styles mapping of a style document
MaxStyles == 2
\* entries of the stops list of a style
MaxStops == 3
\* parameters of a collection of the EDR API
MaxParams == 2
\* vertical intervals of a collection of the EDR API
MaxLevels == 2
\* queries of an EDR dumper run whose requests have every outcome
MaxQueries == 2

(***************************************************************************)
(* Python values.                                                          *)
(***************************************************************************)
None == [t |-> "none"]
PyBool(b) == [t |-> "bool", b |-> b]
PyInt(n) == [t |-> "int", n |-> n]
\* a string whose characters matter (prefix tests, patterns): a sequence of characters
PyChars(cs) == [t |-> "str", cs |-> cs]
\* a string of which only the identity and the emptiness matter
PyStr(s) == [t |-> "str", s |-> s]
PyList(l) == [t |-> "list", l |-> l]
PyDict(d) == [t |-> "dict", d |-> d]
EmptyDict == PyDict(<<>>)

IsDict(v) == v.t = "dict"
IsList(v) == v.t = "list"
IsStr(v) == v.t = "str"

\* bool(v)
Truthy(v) ==
    CASE v.t = "none" -> FALSE
      [] v.t = "bool" -> v.b
      [] v.t = "int" -> v.n # 0
      [] v.t = "float" -> v.n # 0
      [] v.t = "str" -> IF "cs" \in DOMAIN v THEN v.cs # <<>> ELSE v.s # ""
      [] v.t = "list" -> v.l # <<>>
      [] v.t = "dict" -> DOMAIN v.d # {}

\* key in mapping
Has(m, key) == key \in DOMAIN m.d
\* mapping.get(key, default)
Get(m, key, default) == IF Has(m, key) THEN m.d[key] ELSE default

\* mutant of StartsWith: s == prefix
StartsWith_Equal(s, prefix) == s = prefix

\* s.startswith(prefix), on character sequences
StartsWith(s, prefix) ==
    /\ Len(prefix) <= Len(s)
    /\ SubSeq(s, 1, Len(prefix)) = prefix

\* helpers to enumerate documents: a field that may be absent
Absent == [t |-> "absent"]
Field(key, v) == IF v = Absent THEN <<>> ELSE (key :> v)

SeqsUpTo(S, n) == UNION {[1..k -> S] : k \in 0..n}

RECURSIVE Sorted(_)
\* sorted(names)
Sorted(S) ==
    IF S = {} THEN <<>>
    ELSE LET m == CHOOSE x \in S : \A y \in S : x <= y
         IN <<m>> \o Sorted(S \ {m})


RECURSIVE SelectSeqBy(_, _)
SelectSeqBy(s, kind) ==
    IF s = <<>> THEN <<>>
    ELSE (IF Head(s).msg = kind THEN <<Head(s)>> ELSE <<>>) \o SelectSeqBy(Tail(s), kind)

(***************************************************************************)
(* Layer validator: src/config/layers/validate_layers.py                   *)
(***************************************************************************)
REQUIRED_LAYER_FIELDS == <<"id", "parameter", "title", "style_file">>
REQUIRED_MODEL_FIELDS == <<"model", "display_name", "layers">>

\* the names that exist under config/styles/ (the environment of the run)
StyleDirFiles == {"temperature.json", "wind.json"}

\* (style_dir / style_file).exists()
StylePathExists(style_dir, style_file) == style_file.s \in style_dir

\* one entry of a file's `errors` or `warnings` list: the message, the layer id
\* the text names, and the argument the text interpolates
LayerMessage(layer_id, msg, arg) == [msg |-> msg, layer |-> layer_id, arg |-> arg]
FileMessage(msg, arg) == [msg |-> msg, arg |-> arg]

MissingLayerId == PyChars(<<"<", "m", "i", "s", "s", "i", "n", "g", ">">>)
UnknownModel == PyChars(<<"u", "n", "k", "n", "o", "w", "n">>)

\* layer.get("id", "<missing>")
LayerId(layer) == Get(layer, "id", MissingLayerId)

RECURSIVE MissingFields(_, _)
\* the fields of `fields`, in order, that are not keys of obj
MissingFields(obj, fields) ==
    IF fields = <<>> THEN <<>>
    ELSE (IF Has(obj, Head(fields)) THEN <<>> ELSE <<Head(fields)>>)
         \o MissingFields(obj, Tail(fields))

\* mutant of RequiredFieldErrors: stops at the first missing field
RequiredFieldErrors_FirstOnly(layer) ==
    LET missing == MissingFields(layer, REQUIRED_LAYER_FIELDS)
    IN IF missing = <<>> THEN <<>>
       ELSE <<LayerMessage(LayerId(layer), "missing required field", missing[1])>>

\* validate_layer, "Check required fields"
RequiredFieldErrors(layer) ==
    LET missing == MissingFields(layer, REQUIRED_LAYER_FIELDS)
    IN [i \in 1..Len(missing) |->
            LayerMessage(LayerId(layer), "missing required field", missing[i])]

\* mutant of UnitsErrors: a units mapping is never asked for native
UnitsErrors_NoNative(layer) ==
    LET layer_id == LayerId(layer)
        is_composite == Get(layer, "composite", PyBool(FALSE))
        units == Get(layer, "units", EmptyDict)
    IN IF Truthy(units) /\ ~IsDict(units)
       THEN <<LayerMessage(layer_id, "must be an object", "units")>>
       ELSE IF ~Truthy(is_composite) /\ ~Truthy(units)
       THEN <<LayerMessage(layer_id, "missing required field", "units")>>
       ELSE <<>>

\* mutant of UnitsErrors: composite layers are checked like the others
UnitsErrors_CompositeToo(layer) ==
    LET layer_id == LayerId(layer)
        units == Get(layer, "units", EmptyDict)
    IN IF Truthy(units) /\ ~IsDict(units)
       THEN <<LayerMessage(layer_id, "must be an object", "units")>>
       ELSE IF ~Truthy(units)
       THEN <<LayerMessage(layer_id, "missing required field", "units")>>
       ELSE IF ~Has(units, "native")
       THEN <<LayerMessage(layer_id, "missing required field", "units.native")>>
       ELSE <<>>

\* validate_layer, "Check units.native (not required for composite layers)"
UnitsErrors(layer) ==
    LET layer_id == LayerId(layer)
        is_composite == Get(layer, "composite", PyBool(FALSE))
        units == Get(layer, "units", EmptyDict)
    IN IF Truthy(units) /\ ~IsDict(units)
       THEN <<LayerMessage(layer_id, "must be an object", "units")>>
       ELSE IF ~Truthy(is_composite)
       THEN IF ~Truthy(units)
            THEN <<LayerMessage(layer_id, "missing required field", "units")>>
            ELSE IF ~Has(units, "native")
            THEN <<LayerMessage(layer_id, "missing required field", "units.native")>>
            ELSE <<>>
       ELSE <<>>

\* mutant of NamingWarnings: the id is checked whether or not parameter is present
NamingWarnings_IdOnly(layer, model) ==
    IF Has(layer, "id") /\ ~StartsWith(LayerId(layer).cs, model.cs \o <<"_">>)
    THEN <<LayerMessage(LayerId(layer), "ID should start with", "prefix")>>
    ELSE <<>>

\* validate_layer, "Check layer ID naming convention"
NamingWarnings(layer, model) ==
    LET layer_id == LayerId(layer)
        expected_prefix == model.cs \o <<"_">>
    IN IF Has(layer, "id") /\ Has(layer, "parameter")
       THEN IF ~StartsWith(layer_id.cs, expected_prefix)
            THEN <<LayerMessage(layer_id, "ID should start with", "prefix")>>
            ELSE <<>>
       ELSE <<>>

\* validate_layer, "Check style file exists"
StyleFileErrors(layer, style_dir) ==
    LET style_file == Get(layer, "style_file", None)
    IN IF Truthy(style_file)
       THEN IF ~StylePathExists(style_dir, style_file)
            THEN <<LayerMessage(LayerId(layer), "style file not found", style_file.s)>>
            ELSE <<>>
       ELSE <<>>

\* validate_layer, "Check levels have a default"
LevelWarnings(layer) ==
    LET levels == Get(layer, "levels", PyList(<<>>))
        has_default == \E i \in 1..Len(levels.l) :
                           /\ IsDict(levels.l[i])
                           /\ Truthy(Get(levels.l[i], "default", PyBool(FALSE)))
    IN IF Truthy(levels)
       THEN IF ~has_default
            THEN <<LayerMessage(LayerId(layer), "no default level specified", "levels")>>
            ELSE <<>>
       ELSE <<>>

\* mutant of CompositeErrors: only an absent requires is an error
CompositeErrors_AbsentOnly(layer) ==
    IF Truthy(Get(layer, "composite", None)) /\ ~Has(layer, "requires")
    THEN <<LayerMessage(LayerId(layer), "composite layer must have field", "requires")>>
    ELSE <<>>

\* validate_layer, "Check composite layers have requires field"
CompositeErrors(layer) ==
    IF Truthy(Get(layer, "composite", None)) /\ ~Truthy(Get(layer, "requires", None))
    THEN <<LayerMessage(LayerId(layer), "composite layer must have field", "requires")>>
    ELSE <<>>

\* validate_layer(layer, model, style_dir, errors, warnings): what it appends to
\* errors and to warnings, and what it returns
validate_layer(layer, model, style_dir) ==
    [errors |-> RequiredFieldErrors(layer) \o UnitsErrors(layer)
                \o StyleFileErrors(layer, style_dir) \o CompositeErrors(layer),
     warnings |-> NamingWarnings(layer, model) \o LevelWarnings(layer),
     ret |-> IF Has(layer, "id") THEN LayerId(layer) ELSE None]

\* validate_file, "Check for duplicate IDs": the error appended and the map afterwards
RegisterLayerId(layer_id, filename, ids) ==
    IF Truthy(layer_id)
    THEN IF layer_id \in DOMAIN ids
         THEN [errors |-> <<LayerMessage(layer_id, "Duplicate layer ID", ids[layer_id])>>,
               ids |-> ids]
         ELSE [errors |-> <<>>, ids |-> (layer_id :> filename) @@ ids]
    ELSE [errors |-> <<>>, ids |-> ids]

RECURSIVE ValidateLayers(_, _, _, _, _)
\* validate_file, "Validate each layer": the loop over `layers`
ValidateLayers(layers, model, style_dir, filename, acc) ==
    LET \* validate_file, one iteration of "for layer in layers": acc holds the file's
        \* errors and warnings so far and the id map
        ValidateEntry(layer) ==
            IF ~IsDict(layer)
            THEN [acc EXCEPT !.errors = @ \o <<FileMessage("Layer entry must be an object", layer.t)>>]
            ELSE LET r == validate_layer(layer, model, style_dir)
                     reg == RegisterLayerId(r.ret, filename, acc.ids)
                 IN [errors |-> acc.errors \o r.errors \o reg.errors,
                     warnings |-> acc.warnings \o r.warnings,
                     ids |-> reg.ids]
    IN
        IF layers = <<>> THEN acc
        ELSE ValidateLayers(Tail(layers), model, style_dir, filename,
                            ValidateEntry(Head(layers)))

\* A file on disk: how reading it ends ("ok", "syntax_error": the parser rejects
\* the text, "not_found": no such file, "unreadable": any other failure of open()
\* or read(), such as a permission error), and the document the parser returns
ReadOk(data) == [read |-> "ok", data |-> data]
ReadFails(how) == [read |-> how]

\* load_yaml_file(filepath): the document, or None on every failure
load_yaml_file(file) == IF file.read = "ok" THEN file.data ELSE None

\* validate_file(filepath, style_dir, all_layer_ids), file being what filepath holds
validate_file(file, filename, style_dir, ids) ==
    LET data == load_yaml_file(file) IN
    IF data = None
    THEN [errors |-> <<>>, warnings |-> <<>>, ids |-> ids, ret |-> <<1, 0>>]
    ELSE LET missing == MissingFields(data, REQUIRED_MODEL_FIELDS)
             field_errors == [i \in 1..Len(missing) |->
                                 FileMessage("Missing required field", missing[i])]
             model == Get(data, "model", UnknownModel)
             given == Get(data, "layers", PyList(<<>>))
             list_errors == IF ~IsList(given)
                            THEN <<FileMessage("must be a list", "layers")>>
                            ELSE <<>>
             layers == IF ~IsList(given) THEN <<>> ELSE given.l
             r == ValidateLayers(layers, model, style_dir, filename,
                                 [errors |-> field_errors \o list_errors,
                                  warnings |-> <<>>, ids |-> ids])
         IN [errors |-> r.errors, warnings |-> r.warnings, ids |-> r.ids,
             ret |-> <<Len(r.errors), Len(r.warnings)>>]

(***************************************************************************)
(* The documents the layer validator is run on.                            *)
(***************************************************************************)
IdGfsTemp == PyChars(<<"g", "_", "t">>)
IdNamTemp == PyChars(<<"n", "_", "t">>)
IdEmpty == PyChars(<<>>)
ModelGfs == PyChars(<<"g">>)
NativeUnits == PyDict([native |-> PyStr("K")])

\* layers of the files of a run: complete layers whose id varies; in a file of
\* model g the id n_t breaks the naming convention (a warning), the empty id too
RunLayer(id) ==
    PyDict(Field("id", id) @@ Field("parameter", PyStr("TMP")) @@ Field("title", PyStr("T"))
           @@ Field("style_file", PyStr("temperature.json")) @@ Field("units", NativeUnits))
RunLayerValues == {RunLayer(id) : id \in {Absent, IdEmpty, IdGfsTemp, IdNamTemp}}

\* entries of a `layers` list: layers, and one entry that is not a mapping
RunEntryValues == RunLayerValues \cup {PyStr("gfs_temp")}

\* a readable layer file of model g with the given `layers`
LayerDocument(layers) ==
    ReadOk(PyDict(Field("model", ModelGfs) @@ Field("display_name", PyStr("GFS"))
                  @@ Field("layers", layers)))

\* the layer files of a run: files that cannot be read or parsed, and documents
\* of model g whose `layers` is absent, not a list, or a list of entries
LayerFileValues ==
    {ReadFails("syntax_error"), ReadFails("unreadable"), ReadOk(None)} \cup
    {LayerDocument(layers) :
        layers \in {Absent, PyStr("none")}
                   \cup {PyList(l) : l \in SeqsUpTo(RunEntryValues, MaxLayers)}}

RECURSIVE Occurrences(_, _, _)
Occurrences(layers, filename, acc) ==
    LET \* history, one layer entry: the first file in which each declared id occurs
        \* (seen), and one "Duplicate layer ID" message per repeated occurrence, naming
        \* that first file (repeats)
        Occurrence(layer) ==
            IF IsDict(layer) /\ Has(layer, "id")
            THEN IF layer.d.id \in DOMAIN acc.seen
                 THEN [acc EXCEPT !.repeats =
                          @ \o <<LayerMessage(layer.d.id, "Duplicate layer ID", acc.seen[layer.d.id])>>]
                 ELSE [acc EXCEPT !.seen = (layer.d.id :> filename) @@ @]
            ELSE acc
    IN
        IF layers = <<>> THEN acc
        ELSE Occurrences(Tail(layers), filename, Occurrence(Head(layers)))

\* the `layers` list of the document a file holds
LayersOf(file) ==
    IF file.read = "ok" /\ IsDict(file.data) /\ Has(file.data, "layers")
       /\ IsList(file.data.d.layers)
    THEN file.data.d.layers.l
    ELSE <<>>

\* the ids the layers of a list declare
DeclaredIds(layers) ==
    {layers[i].d.id : i \in {j \in 1..Len(layers) : IsDict(layers[j]) /\ Has(layers[j], "id")}}

NoCall == [made |-> FALSE]

(***************************************************************************)
(* Layer validator, main().                                                *)
(***************************************************************************)
\* mutant of FreshLayerIds: the map of an earlier run is kept
FreshLayerIds_Stale == all_layer_ids

\* main, "Track all layer IDs across files"
FreshLayerIds == <<>>

\* main: glob, sort, the no-files exit, the counters
LayerMainStart ==
    /\ tool = "layers"
    /\ pc = "start"
    /\ files' = Sorted(dir)
    /\ IF files' = <<>>
       THEN /\ pc' = "exited"
            /\ exit_code' = 1
            /\ UNCHANGED <<all_layer_ids, total_errors, total_warnings>>
       ELSE /\ pc' = "loop"
            /\ all_layer_ids' = FreshLayerIds
            /\ total_errors' = 0
            /\ total_warnings' = 0
            /\ UNCHANGED exit_code
    /\ idx' = 0
    /\ reported' = <<>>
    /\ call' = NoCall
    /\ first_seen' = <<>>
    /\ any_error' = FALSE
    /\ any_warning' = FALSE
    /\ UNCHANGED <<environment, dumper, first, fn_in, fn_out>>

\* the report of a run with one more entry; the history is kept in the runs
\* that are repeated, those whose files are on `disk`
Recorded(entry) == IF DOMAIN disk = {} THEN reported ELSE Append(reported, entry)

\* main: one iteration of "for filepath in layer_files", the file holding `file`
LayerMainValidate(file) ==
    /\ tool = "layers"
    /\ pc = "loop"
    /\ idx < Len(files)
    /\ \E r \in {validate_file(file, files[idx + 1], StyleDirFiles, all_layer_ids)} :
       \E occ \in {Occurrences(LayersOf(file), files[idx + 1],
                                [seen |-> first_seen, repeats |-> <<>>])} :
       LET filename == files[idx + 1]
       IN /\ all_layer_ids' = r.ids
          /\ total_errors' = total_errors + r.ret[1]
          /\ total_warnings' = total_warnings + r.ret[2]
          /\ call' = [made |-> TRUE, file |-> filename, read |-> file.read,
                      declared |-> DeclaredIds(LayersOf(file)),
                      duplicates |-> SelectSeqBy(r.errors, "Duplicate layer ID"),
                      repeats |-> occ.repeats,
                      n_errors |-> Len(r.errors), n_warnings |-> Len(r.warnings),
                      ret |-> r.ret, ids_before |-> all_layer_ids]
          /\ reported' = Recorded([file |-> filename, read |-> file.read,
                                    errors |-> r.errors, warnings |-> r.warnings])
          /\ first_seen' = occ.seen
          /\ any_error' = (any_error \/ r.ret[1] # 0)
          /\ any_warning' = (any_warning \/ r.warnings # <<>>)
    /\ idx' = idx + 1
    /\ UNCHANGED <<environment, dumper, pc, files, exit_code, first, fn_in, fn_out>>

\* mutant of LayerExitStatus: warnings fail the run
LayerExitStatus_WarningsFail(errors, warnings) ==
    IF errors # 0 \/ warnings # 0 THEN 1 ELSE 0

\* main, "Summary": the exit status
LayerExitStatus(errors, warnings) ==
    IF errors # 0 THEN 1
    ELSE IF warnings # 0 THEN 0
    ELSE 0

LayerMainSummary ==
    /\ tool = "layers"
    /\ pc = "loop"
    /\ idx = Len(files)
    /\ pc' = "exited"
    /\ exit_code' = LayerExitStatus(total_errors, total_warnings)
    /\ UNCHANGED <<environment, dumper, files, idx, all_layer_ids, total_errors, total_warnings,
                   reported, call, first_seen, any_error, any_warning, first,
                   fn_in, fn_out>>

\* the state of a process not started yet
\* no validator has started
NoValidator ==
    /\ files = <<>>
    /\ idx = 0
    /\ all_layer_ids = <<>>
    /\ total_errors = 0
    /\ total_warnings = 0
    /\ exit_code = -1
    /\ reported = <<>>
    /\ call = NoCall
    /\ first_seen = <<>>
    /\ any_error = FALSE
    /\ any_warning = FALSE
    /\ first = [done |-> FALSE]

\* the state before a validator starts: the EDR dumper is not in use
NotStarted ==
    /\ NoValidator
    /\ api = None
    /\ args = None
    /\ stats = None
    /\ results = <<>>
    /\ crawl = None

LayerInit ==
    /\ tool = "layers"
    /\ argv = <<>>
    /\ dir \in {1..n : n \in 0..MaxFiles}
    /\ disk = <<>>
    /\ pc = "start"
    /\ NotStarted
    /\ fn_in = None
    /\ fn_out = None

LayerNext ==
    \/ LayerMainStart
    \/ \E file \in LayerFileValues : LayerMainValidate(file)
    \/ LayerMainSummary

\* a run of the layer validator
SpecLayer == LayerInit /\ [][LayerNext]_vars

(***************************************************************************)
(* validate_layer as a function: every layer of LayerValues is validated   *)
(* once.                                                                   *)
(***************************************************************************)
LayerValues ==
    {PyDict(Field("id", id) @@ Field("parameter", parameter) @@ Field("title", title)
            @@ Field("style_file", style_file) @@ Field("units", units)
            @@ Field("composite", composite) @@ Field("requires", requires)
            @@ Field("levels", levels)) :
        id \in {Absent, IdEmpty, IdGfsTemp, IdNamTemp},
        parameter \in {Absent, PyStr("TMP")},
        title \in {Absent, PyStr("T")},
        style_file \in {Absent, PyStr(""), PyStr("temperature.json"), PyStr("nowhere.json")},
        units \in {Absent, PyStr(""), PyStr("K"), EmptyDict, NativeUnits,
                   PyDict([display |-> PyStr("C")])},
        composite \in {Absent, PyBool(FALSE), PyBool(TRUE)},
        requires \in {Absent, PyList(<<>>), PyList(<<PyStr("UGRD")>>)},
        levels \in {Absent, PyList(<<PyDict([default |-> PyBool(TRUE)])>>),
                    PyList(<<PyDict([value |-> PyStr("2 m")])>>)}}

ValidateLayerInit ==
    /\ tool = "layers"
    /\ argv = <<>>
    /\ dir = {}
    /\ disk = <<>>
    /\ pc = "function"
    /\ NotStarted
    /\ fn_in \in [layer : LayerValues, model : {ModelGfs, UnknownModel}]
    /\ fn_out = [done |-> FALSE]

\* one call validate_layer(layer, model, style_dir, [], [])
ApplyValidateLayer ==
    /\ pc = "function"
    /\ ~fn_out.done
    /\ \E r \in {validate_layer(fn_in.layer, fn_in.model, StyleDirFiles)} :
          fn_out' = [done |-> TRUE, errors |-> r.errors, warnings |-> r.warnings,
                     ret |-> r.ret]
    /\ UNCHANGED <<environment, dumper, pc, files, idx, all_layer_ids, total_errors, total_warnings,
                   exit_code, reported, call, first_seen, any_error, any_warning,
                   first, fn_in>>

SpecValidateLayer == ValidateLayerInit /\ [][ApplyValidateLayer]_vars

(***************************************************************************)
(* Properties of the layer validator.                                      *)
(***************************************************************************)
\* number of entries of a message list with the given message and argument
CountMsg(list, msg, arg) ==
    Cardinality({i \in 1..Len(list) : list[i].msg = msg /\ list[i].arg = arg})

\* C1, as claimed: the id map gives every id it holds to the first file that
\* declared it, and the file being processed gets exactly one "Duplicate layer ID"
\* error, naming that first file, for every later occurrence of an id
C1_DuplicateRule ==
    /\ \A id \in DOMAIN all_layer_ids :
          id \in DOMAIN first_seen /\ all_layer_ids[id] = first_seen[id]
    /\ call.made => call.duplicates = call.repeats

\* C2: once main has exited, the status is 1 exactly when there were no files or an
\* error was recorded in some file, and 0 otherwise, whatever the warnings
C2_LayerExitStatus ==
    pc = "exited" => exit_code = (IF files = <<>> \/ any_error THEN 1 ELSE 0)

\* C2 witness: a run over files that recorded warnings and no error exited 0
C2_WarningsOnlyExit ==
    pc = "exited" /\ files # <<>> /\ any_warning /\ ~any_error /\ exit_code = 0

\* the composite flag of the validated layer is truthy
FnComposite == Truthy(Get(fn_in.layer, "composite", PyBool(FALSE)))
\* the validated layer has a units key whose value is a mapping without native
FnUnitsLackNative ==
    /\ Has(fn_in.layer, "units")
    /\ IsDict(fn_in.layer.d.units)
    /\ ~Has(fn_in.layer.d.units, "native")
\* the errors of the call that are about units
FnUnitsErrors ==
    {i \in 1..Len(fn_out.errors) : fn_out.errors[i].arg \in {"units", "units.native"}}

\* C7: every absent required field of a layer yields exactly one "missing required
\* field" error for it, a present one none, and when id is absent every error of
\* the layer names it <missing>
C7_RequiredFields ==
    fn_out.done =>
        /\ \A f \in {"id", "parameter", "title", "style_file"} :
              CountMsg(fn_out.errors, "missing required field", f)
                  = (IF Has(fn_in.layer, f) THEN 0 ELSE 1)
        /\ ~Has(fn_in.layer, "id") =>
              \A i \in 1..Len(fn_out.errors) : fn_out.errors[i].layer = MissingLayerId

\* C7 witness: a layer without any of the four fields got four such errors
C7_AllFourMissing ==
    /\ fn_out.done
    /\ \A f \in {"id", "parameter", "title", "style_file"} : ~Has(fn_in.layer, f)
    /\ Len(SelectSeqBy(fn_out.errors, "missing required field")) >= 4

\* C8: in a layer that is not a composite, an absent or empty units value yields the
\* error naming units, a non-empty units mapping without native yields the error
\* naming units.native, and in both cases it is the only error about units
C8_UnitsNonComposite ==
    (fn_out.done /\ ~FnComposite) =>
        /\ ~Truthy(Get(fn_in.layer, "units", EmptyDict)) =>
              /\ CountMsg(fn_out.errors, "missing required field", "units") = 1
              /\ Cardinality(FnUnitsErrors) = 1
        /\ (FnUnitsLackNative /\ Truthy(fn_in.layer.d.units)) =>
              /\ CountMsg(fn_out.errors, "missing required field", "units.native") = 1
              /\ Cardinality(FnUnitsErrors) = 1

\* C8 witness: a non-composite layer whose units mapping lacks native got the
\* units.native error
C8_NativeMissing ==
    /\ fn_out.done /\ ~FnComposite
    /\ FnUnitsLackNative /\ Truthy(fn_in.layer.d.units)
    /\ CountMsg(fn_out.errors, "missing required field", "units.native") = 1

\* C9, as claimed: in every layer, composite or not, a present units value that is
\* not a mapping yields an error, and a present units mapping without native
\* yields an error
C9_UnitsWhenPresent ==
    (fn_out.done /\ Has(fn_in.layer, "units")) =>
        /\ ~IsDict(fn_in.layer.d.units) => FnUnitsErrors # {}
        /\ FnUnitsLackNative => FnUnitsErrors # {}

\* C9, amended: a present non-empty units value that is not a mapping yields the
\* "must be an object" error in every layer; a units mapping without native yields
\* an error when the layer is not a composite; in a composite layer a units value
\* that is a mapping or is empty yields no error about units
C9_UnitsWhenPresentAmended ==
    (fn_out.done /\ Has(fn_in.layer, "units")) =>
        /\ (Truthy(fn_in.layer.d.units) /\ ~IsDict(fn_in.layer.d.units)) =>
              CountMsg(fn_out.errors, "must be an object", "units") = 1
        /\ (FnUnitsLackNative /\ ~FnComposite) => FnUnitsErrors # {}
        /\ (FnComposite /\ (IsDict(fn_in.layer.d.units) \/ ~Truthy(fn_in.layer.d.units))) =>
              FnUnitsErrors = {}

\* C9 witness: a composite layer whose units mapping lacks native got no error
\* about units
C9_CompositeWithoutNative ==
    /\ fn_out.done /\ FnComposite /\ FnUnitsLackNative
    /\ Truthy(fn_in.layer.d.units)
    /\ FnUnitsErrors = {}

\* the value names a file that exists under the style directory
NamesExistingStyle(v) == IsStr(v) /\ v.s # "" /\ v.s \in StyleDirFiles

\* C10, as claimed: for a layer with style_file present, a "not found" error is
\* recorded exactly when the value names no existing file of the style directory
C10_StyleReference ==
    (fn_out.done /\ Has(fn_in.layer, "style_file")) =>
        ((\E i \in 1..Len(fn_out.errors) : fn_out.errors[i].msg = "style file not found")
            <=> ~NamesExistingStyle(fn_in.layer.d.style_file))

\* the requires value of the validated layer is absent or empty
FnRequiresEmpty == ~Truthy(Get(fn_in.layer, "requires", None))

FnNamingViolated ==
    /\ Has(fn_in.layer, "id") /\ Has(fn_in.layer, "parameter")
    /\ ~StartsWith(fn_in.layer.d.id.cs, fn_in.model.cs \o <<"_">>)
\* the validated layer has no defect other than, possibly, its id
FnOtherwiseSound ==
    /\ \A f \in {"id", "parameter", "title", "style_file", "units"} : Has(fn_in.layer, f)
    /\ NamesExistingStyle(fn_in.layer.d.style_file)
    /\ IsDict(fn_in.layer.d.units) /\ Has(fn_in.layer.d.units, "native")
    /\ ~FnComposite

AwsS3 == <<"a", "w", "s", "_", "s", "3">>
VALID_DIMENSION_TYPES == {"forecast", "observation"}
\* the source types are kept as character sequences, for startswith
VALID_SOURCE_TYPES == {AwsS3, AwsS3 \o <<"_", "g", "o", "e", "s">>,
                       AwsS3 \o <<"_", "g", "r", "i", "b", "2">>,
                       <<"l", "o", "c", "a", "l">>, <<"h", "t", "t", "p">>}
VALID_PROJECTION_TYPES == {"geographic", "latlon", "geostationary", "lambert_conformal",
                           "mercator"}
VALID_LEVEL_TYPES == {"surface", "height_above_ground", "height_above_ground_layer",
                      "isobaric", "mean_sea_level", "entire_atmosphere", "low_cloud_layer",
                      "middle_cloud_layer", "high_cloud_layer", "cloud_top",
                      "top_of_atmosphere", "depth_below_surface", "boundary_layer",
                      "tropopause"}
VALID_STYLES == {"default", "temperature", "wind", "precipitation", "humidity",
                 "atmospheric", "cape", "cloud", "visibility", "reflectivity", "precip_rate",
                 "goes_visible", "goes_ir", "wind_barbs", "helicity", "lightning", "smoke",
                 "radar"}
VALID_CONVERSIONS == {"K_to_C", "K_to_F", "Pa_to_hPa", "Pa_to_mb", "m_to_km", "m_to_ft",
                      "m_to_kft", "ms_to_kt", "ms_to_mph"}

\* more Python: isinstance against bool, int and (int, float); a bool is an int
IsBool(v) == v.t = "bool"
\* mutant of IsInt: a float passes for an int
IsInt_AlsoFloat(v) == v.t \in {"int", "bool", "float"}
IsInt(v) == v.t \in {"int", "bool"}
\* mutant of IsNumber: a float is no number
IsNumber_IntOnly(v) == v.t \in {"int", "bool"}
IsNumber(v) == v.t \in {"int", "float", "bool"}
PyFloat(n) == [t |-> "float", n |-> n]
\* the number a numeric value stands for
NumberOf(v) == IF v.t = "bool" THEN (IF v.b THEN 1 ELSE 0) ELSE v.n
\* the text of a string value, whichever way it is kept
TextOf(v) == IF "cs" \in DOMAIN v THEN v.cs ELSE v.s
\* value == "text"
StrIs(v, text) == IsStr(v) /\ TextOf(v) = text
\* value in vocabulary, for a hashable value
InVocabulary(v, vocabulary) == IsStr(v) /\ TextOf(v) \in vocabulary
\* hash(value) raises TypeError
Unhashable(v) == v.t \in {"list", "dict"}

\* ValidationError(path, message, severity): `at` holds what the path or the
\* message interpolates (a field name, a 0-based index)
ValidationError(path, at, msg) == [path |-> path, at |-> at, msg |-> msg]

\* what a block of statements adds to self.errors and to self.warnings, and
\* whether it raised an exception
NoMessages == [errors |-> <<>>, warnings |-> <<>>, raised |-> FALSE]
AddErrors(es) == [errors |-> es, warnings |-> <<>>, raised |-> FALSE]
AddWarnings(ws) == [errors |-> <<>>, warnings |-> ws, raised |-> FALSE]
\* self.add_error(path, message)
add_error(path, at, msg) == AddErrors(<<ValidationError(path, at, msg)>>)
\* mutant of add_warning: the message is recorded as an error
add_warning_AsError(path, at, msg) == AddErrors(<<ValidationError(path, at, msg)>>)
\* self.add_warning(path, message)
add_warning(path, at, msg) == AddWarnings(<<ValidationError(path, at, msg)>>)
Raises == [errors |-> <<>>, warnings |-> <<>>, raised |-> TRUE]

\* statement a, then statement b unless a raised
Then(a, b) ==
    IF a.raised THEN a
    ELSE [errors |-> a.errors \o b.errors, warnings |-> a.warnings \o b.warnings,
          raised |-> b.raised]

RECURSIVE InOrder(_)
\* the statements of a sequence, one after the other
InOrder(steps) ==
    IF steps = <<>> THEN NoMessages ELSE Then(Head(steps), InOrder(Tail(steps)))

\* re.match(r"^[a-z][a-z0-9_]*$", text); `$` also matches before a final newline
MatchesModelId(cs) ==
    LET LowerCase == {"a", "b", "c", "d", "e", "f", "g", "h", "i", "j", "k", "l", "m", "n", "o",
                      "p", "q", "r", "s", "t", "u", "v", "w", "x", "y", "z"}
        Digits == {"0", "1", "2", "3", "4", "5", "6", "7", "8", "9"}
    IN
        LET body == IF cs # <<>> /\ cs[Len(cs)] = "\n" THEN SubSeq(cs, 1, Len(cs) - 1) ELSE cs
        IN /\ body # <<>>
           /\ body[1] \in LowerCase
           /\ \A i \in 2..Len(body) : body[i] \in LowerCase \cup Digits \cup {"_"}

\* _require_string(obj, path, pattern, pattern_desc); field is the last part of path
require_string(obj, field, path, with_pattern) ==
    IF ~Has(obj, field) THEN add_error(path, <<field>>, "Missing required field")
    ELSE IF ~IsStr(obj.d[field]) THEN add_error(path, <<>>, "Must be a string")
    ELSE IF with_pattern /\ ~MatchesModelId(obj.d[field].cs)
    THEN add_error(path, <<>>, "Must be lowercase alphanumeric with underscores, starting with letter")
    ELSE NoMessages

\* _optional_string(obj, path)
optional_string(obj, field, path, at) ==
    IF Has(obj, field) /\ ~IsStr(obj.d[field]) THEN add_error(path, at, "Must be a string")
    ELSE NoMessages

\* _optional_bool(obj, path)
optional_bool(obj, field, path) ==
    IF Has(obj, field) /\ ~IsBool(obj.d[field])
    THEN add_error(path, <<>>, "Must be a boolean (true/false)")
    ELSE NoMessages

\* _validate_model_section
validate_model_section(data) ==
    IF ~Has(data, "model") THEN add_error("model", <<>>, "Missing required section 'model'")
    ELSE IF ~IsDict(data.d.model) THEN add_error("model", <<>>, "Section must be a mapping")
    ELSE InOrder(<<require_string(data.d.model, "id", "model.id", TRUE),
                   require_string(data.d.model, "name", "model.name", FALSE),
                   optional_string(data.d.model, "description", "model.description", <<>>),
                   optional_bool(data.d.model, "enabled", "model.enabled")>>)

\* _validate_dimensions_section
validate_dimensions_section(data) ==
    LET \* the loop over the four dimension flags
        DimensionFlagErrors(dims) ==
            LET flags == <<"run", "forecast", "time", "elevation">>
            IN InOrder([i \in 1..Len(flags) |->
                           IF Has(dims, flags[i]) /\ ~IsBool(dims.d[flags[i]])
                           THEN add_error("dimensions.{field}", <<flags[i]>>,
                                             "Must be a boolean (true/false)")
                           ELSE NoMessages])
    IN
        IF ~Has(data, "dimensions")
        THEN add_warning("dimensions", <<>>,
                         "Missing 'dimensions' section - will infer from schedule.type")
        ELSE IF ~IsDict(data.d.dimensions)
        THEN add_error("dimensions", <<>>, "Section must be a mapping")
        ELSE LET dims == data.d.dimensions
                 dim_type == Get(dims, "type", None)
             IN InOrder(<<
                  IF dim_type = None
                  THEN add_warning("dimensions.type", <<>>, "Missing 'type' - will default to 'forecast'")
                  ELSE IF Unhashable(dim_type) THEN Raises
                  ELSE IF ~InVocabulary(dim_type, VALID_DIMENSION_TYPES)
                  THEN add_error("dimensions.type", <<>>, "Invalid type")
                  ELSE NoMessages,
                  IF StrIs(dim_type, "forecast")
                  THEN IF Truthy(Get(dims, "time", None))
                       THEN add_warning("dimensions.time", <<>>,
                                        "Forecast models typically don't use TIME dimension")
                       ELSE NoMessages
                  ELSE IF StrIs(dim_type, "observation")
                  THEN IF Truthy(Get(dims, "run", None)) \/ Truthy(Get(dims, "forecast", None))
                       THEN add_warning("dimensions.run/forecast", <<>>,
                                        "Observation models typically don't use RUN/FORECAST dimensions")
                       ELSE NoMessages
                  ELSE NoMessages,
                  DimensionFlagErrors(dims)>>)

\* _validate_source_section
validate_source_section(data) ==
    LET \* the bucket and region checks of an S3 source
        S3SourceChecks(source) ==
            InOrder(<<IF ~Has(source, "bucket")
                      THEN add_error("source.bucket", <<>>,
                                     "Missing required field 'bucket' for AWS S3 source")
                      ELSE NoMessages,
                      IF ~Has(source, "region")
                      THEN add_warning("source.region", <<>>, "Missing 'region' - will default to us-east-1")
                      ELSE NoMessages>>)
    IN
        IF ~Has(data, "source") THEN add_error("source", <<>>, "Missing required section 'source'")
        ELSE IF ~IsDict(data.d.source) THEN add_error("source", <<>>, "Section must be a mapping")
        ELSE LET source == data.d.source
                 source_type == Get(source, "type", None)
             IN InOrder(<<
                  IF source_type = None
                  THEN add_error("source.type", <<>>, "Missing required field 'type'")
                  ELSE IF Unhashable(source_type) THEN Raises
                  ELSE IF ~InVocabulary(source_type, VALID_SOURCE_TYPES)
                  THEN add_error("source.type", <<>>, "Invalid type")
                  ELSE NoMessages,
                  \* source_type.startswith("aws_s3") raises AttributeError on a
                  \* truthy value that is not a string
                  IF ~Truthy(source_type) THEN NoMessages
                  ELSE IF ~IsStr(source_type) THEN Raises
                  ELSE IF StartsWith(source_type.cs, AwsS3) THEN S3SourceChecks(source)
                  ELSE NoMessages>>)

RECURSIVE StrLess(_, _)
\* a < b on strings
StrLess(a, b) ==
    LET \* the characters of the modelled strings, in code point order
        Ascii == <<"\n", "0", "1", "2", "3", "4", "5", "6", "7", "8", "9", "_",
                   "a", "b", "c", "d", "e", "f", "g", "h", "i", "j", "k", "l", "m", "n", "o",
                   "p", "q", "r", "s", "t", "u", "v", "w", "x", "y", "z">>
        CodePoint(c) == CHOOSE i \in 1..Len(Ascii) : Ascii[i] = c
    IN
        IF b = <<>> THEN FALSE
        ELSE IF a = <<>> THEN TRUE
        ELSE IF Head(a) = Head(b) THEN StrLess(Tail(a), Tail(b))
        ELSE CodePoint(Head(a)) < CodePoint(Head(b))

\* a >= b raises TypeError unless both are numbers or both are strings (the
\* bounds modelled are numbers, strings and None)
OrderRaises(a, b) ==
    CASE IsNumber(a) /\ IsNumber(b) -> FALSE
      [] IsStr(a) /\ IsStr(b) -> FALSE
      [] a.t \in {"none", "str", "int", "float", "bool"}
         /\ b.t \in {"none", "str", "int", "float", "bool"} -> TRUE
\* mutant of GreaterOrEqual: a > b
GreaterOrEqual_Strict(a, b) ==
    IF IsStr(a) THEN StrLess(b.cs, a.cs) ELSE NumberOf(a) > NumberOf(b)

\* a >= b, where it does not raise
GreaterOrEqual(a, b) ==
    IF IsStr(a) THEN ~StrLess(a.cs, b.cs) ELSE NumberOf(a) >= NumberOf(b)

\* _validate_grid_section
validate_grid_section(data) ==
    LET \* the loop over the four bbox fields
        BboxFieldErrors(bbox) ==
            LET fields == <<"min_lon", "min_lat", "max_lon", "max_lat">>
            IN InOrder([i \in 1..Len(fields) |->
                           IF ~Has(bbox, fields[i])
                           THEN add_error("grid.bbox.{field}", <<fields[i]>>,
                                             "Missing required field")
                           ELSE IF ~IsNumber(bbox.d[fields[i]])
                           THEN add_error("grid.bbox.{field}", <<fields[i]>>, "Must be a number")
                           ELSE NoMessages])
        \* one of the two range checks of the bbox
        BboxOrderCheck(bbox, min, max, msg) ==
            IF ~(Has(bbox, min) /\ Has(bbox, max)) THEN NoMessages
            ELSE IF OrderRaises(bbox.d[min], bbox.d[max]) THEN Raises
            ELSE IF GreaterOrEqual(bbox.d[min], bbox.d[max]) THEN add_error("grid.bbox", <<>>, msg)
            ELSE NoMessages
        \* the bbox block of _validate_grid_section
        BboxChecks(grid) ==
            IF ~Has(grid, "bbox") THEN NoMessages
            ELSE IF ~IsDict(grid.d.bbox)
            THEN add_error("grid.bbox", <<>>, "Must be a mapping with min_lon, min_lat, max_lon, max_lat")
            ELSE InOrder(<<BboxFieldErrors(grid.d.bbox),
                           BboxOrderCheck(grid.d.bbox, "min_lon", "max_lon",
                                          "min_lon must be less than max_lon"),
                           BboxOrderCheck(grid.d.bbox, "min_lat", "max_lat",
                                          "min_lat must be less than max_lat")>>)
    IN
        IF ~Has(data, "grid") THEN add_error("grid", <<>>, "Missing required section 'grid'")
        ELSE IF ~IsDict(data.d.grid) THEN add_error("grid", <<>>, "Section must be a mapping")
        ELSE LET grid == data.d.grid
                 projection == Get(grid, "projection", None)
             IN InOrder(<<
                  IF projection = None
                  THEN add_error("grid.projection", <<>>, "Missing required field 'projection'")
                  ELSE IF Unhashable(projection) THEN Raises
                  ELSE IF ~InVocabulary(projection, VALID_PROJECTION_TYPES)
                  THEN add_error("grid.projection", <<>>, "Invalid projection")
                  ELSE NoMessages,
                  BboxChecks(grid),
                  IF StrIs(projection, "geostationary") /\ ~Has(grid, "projection_params")
                  THEN add_error("grid.projection_params", <<>>,
                                 "Missing required 'projection_params' for geostationary projection")
                  ELSE NoMessages>>)

\* isinstance(value, int) and value > 0, as poll_interval_secs and hours need
PositiveInt(v) == IsInt(v) /\ NumberOf(v) > 0

\* _validate_schedule_section
validate_schedule_section(data) ==
    LET \* the cycles block of _validate_schedule_section
        CycleChecks(schedule) ==
            IF ~Has(schedule, "cycles") THEN NoMessages
            ELSE IF ~IsList(schedule.d.cycles)
            THEN add_error("schedule.cycles", <<>>, "Must be a list of hours (0-23)")
            ELSE LET cycles == schedule.d.cycles.l
                 IN InOrder([i \in 1..Len(cycles) |->
                                IF ~IsInt(cycles[i]) \/ NumberOf(cycles[i]) < 0
                                   \/ NumberOf(cycles[i]) > 23
                                THEN add_error("schedule.cycles[{i}]", <<i - 1>>,
                                                  "Invalid cycle hour, must be 0-23")
                                ELSE NoMessages])
        \* the forecast_hours block of _validate_schedule_section
        ForecastHoursChecks(schedule) ==
            IF ~Has(schedule, "forecast_hours") THEN NoMessages
            ELSE LET fh == schedule.d.forecast_hours
                     fields == <<"start", "end">>
                 IN IF IsDict(fh)
                    THEN InOrder([i \in 1..Len(fields) |->
                                    IF ~Has(fh, fields[i])
                                    THEN add_error("schedule.forecast_hours.{field}", <<fields[i]>>,
                                                      "Missing required field")
                                    ELSE IF ~IsInt(fh.d[fields[i]])
                                    THEN add_error("schedule.forecast_hours.{field}", <<fields[i]>>,
                                                      "Must be an integer")
                                    ELSE NoMessages])
                    ELSE IF ~IsList(fh)
                    THEN add_error("schedule.forecast_hours", <<>>,
                                   "Must be a list or mapping with start/end/step")
                    ELSE NoMessages
    IN
        IF ~Has(data, "schedule") THEN add_error("schedule", <<>>, "Missing required section 'schedule'")
        ELSE IF ~IsDict(data.d.schedule) THEN add_error("schedule", <<>>, "Section must be a mapping")
        ELSE LET schedule == data.d.schedule
                 schedule_type == Get(schedule, "type", None)
             IN InOrder(<<
                  IF ~StrIs(schedule_type, "observation")
                  THEN Then(CycleChecks(schedule), ForecastHoursChecks(schedule))
                  ELSE NoMessages,
                  IF Has(schedule, "poll_interval_secs")
                     /\ ~PositiveInt(schedule.d.poll_interval_secs)
                  THEN add_error("schedule.poll_interval_secs", <<>>, "Must be a positive integer")
                  ELSE NoMessages>>)

\* _validate_retention_section
validate_retention_section(data) ==
    IF ~Has(data, "retention")
    THEN add_warning("retention", <<>>,
                     "Missing 'retention' section - data will be kept indefinitely")
    ELSE IF ~IsDict(data.d.retention) THEN add_error("retention", <<>>, "Section must be a mapping")
    ELSE IF Has(data.d.retention, "hours") /\ ~PositiveInt(data.d.retention.d.hours)
    THEN add_error("retention.hours", <<>>, "Must be a positive integer")
    ELSE NoMessages

\* _validate_precaching_section
validate_precaching_section(data) ==
    IF ~Has(data, "precaching") THEN NoMessages
    ELSE IF ~IsDict(data.d.precaching)
    THEN add_error("precaching", <<>>, "Section must be a mapping")
    ELSE Then(optional_bool(data.d.precaching, "enabled", "precaching.enabled"),
              IF Has(data.d.precaching, "parameters")
                 /\ ~IsList(data.d.precaching.d.parameters)
              THEN add_error("precaching.parameters", <<>>, "Must be a list of parameter names")
              ELSE NoMessages)

\* `value not in VOCABULARY` guarding a warning: the membership test hashes the value
VocabularyWarning(obj, field, vocabulary, path, at, msg) ==
    IF ~Has(obj, field) THEN NoMessages
    ELSE IF Unhashable(obj.d[field]) THEN Raises
    ELSE IF ~InVocabulary(obj.d[field], vocabulary) THEN add_warning(path, at, msg)
    ELSE NoMessages

\* _validate_levels(levels, path); `at` is the index of the parameter in path
validate_levels(levels, at) ==
    LET \* one iteration of the loop of _validate_levels; i is the 0-based index
        ValidateLevel(level, i) ==
            IF ~IsDict(level)
            THEN add_error("{path}[{i}]", at \o <<i>>, "Each level must be a mapping")
            ELSE LET level_type == Get(level, "type", None)
                 IN InOrder(<<
                      IF level_type = None
                      THEN add_error("{path}[{i}].type", at \o <<i>>, "Missing required field 'type'")
                      ELSE IF Unhashable(level_type) THEN Raises
                      ELSE IF ~InVocabulary(level_type, VALID_LEVEL_TYPES)
                      THEN add_warning("{path}[{i}].type", at \o <<i>>, "Unknown level type")
                      ELSE NoMessages,
                      \* has_value is computed and not used
                      IF ~Has(level, "values") THEN NoMessages
                      ELSE IF ~IsList(level.d.values)
                      THEN add_error("{path}[{i}].values", at \o <<i>>, "Must be a list")
                      ELSE IF level.d.values.l = <<>>
                      THEN add_error("{path}[{i}].values", at \o <<i>>,
                                        "Must have at least one value")
                      ELSE NoMessages>>)
    IN
        IF ~IsList(levels) THEN add_error("{path}", at, "Must be a list")
        ELSE IF levels.l = <<>>
        THEN add_error("{path}", at, "Must have at least one level defined")
        ELSE InOrder([i \in 1..Len(levels.l) |-> ValidateLevel(levels.l[i], i - 1)])

\* _validate_parameters_section
validate_parameters_section(data) ==
    LET \* one iteration of the loop of _validate_parameters_section; i is the 0-based index
        ValidateParameter(param, i) ==
            IF ~IsDict(param)
            THEN add_error("parameters[{i}]", <<i>>, "Each parameter must be a mapping")
            ELSE LET name == Get(param, "name", None)
                 IN InOrder(<<
                      IF name = None
                      THEN add_error("parameters[{i}].name", <<i>>, "Missing required field 'name'")
                      ELSE IF ~IsStr(name)
                      THEN add_error("parameters[{i}].name", <<i>>, "Must be a string")
                      ELSE NoMessages,
                      \* name in seen_params, seen_params.add(name)
                      IF Unhashable(name) THEN Raises ELSE NoMessages,
                      optional_string(param, "description", "parameters[{i}].description", <<i>>),
                      IF ~Has(param, "levels")
                      THEN add_error("parameters[{i}].levels", <<i>>,
                                        "Missing required field 'levels'")
                      ELSE validate_levels(param.d.levels, <<i>>),
                      VocabularyWarning(param, "style", VALID_STYLES, "parameters[{i}].style", <<i>>,
                                        "Unknown style"),
                      optional_string(param, "units", "parameters[{i}].units", <<i>>),
                      optional_string(param, "display_units", "parameters[{i}].display_units", <<i>>),
                      VocabularyWarning(param, "conversion", VALID_CONVERSIONS,
                                        "parameters[{i}].conversion", <<i>>, "Unknown conversion")>>)
    IN
        IF ~Has(data, "parameters")
        THEN add_error("parameters", <<>>, "Missing required section 'parameters'")
        ELSE IF ~IsList(data.d.parameters) THEN add_error("parameters", <<>>, "Section must be a list")
        ELSE IF data.d.parameters.l = <<>>
        THEN add_error("parameters", <<>>, "Must have at least one parameter defined")
        ELSE InOrder([i \in 1..Len(data.d.parameters.l) |->
                         ValidateParameter(data.d.parameters.l[i], i - 1)])

\* _validate_composites_section
validate_composites_section(data) ==
    LET \* iter(value) raises TypeError
        NotIterable(v) == v.t \in {"none", "bool", "int", "float"}
        \* the values `for param in value` yields; a string yields its characters and a
        \* mapping its keys, none of which is a mapping
        Iterate(v) == IF IsList(v) THEN v.l ELSE <<>>
        \* the loop collecting defined_params: the names found, or a raise on a name
        \* that cannot be hashed
        DefinedParams(params) ==
            LET named == SelectSeq(params, LAMBDA p : IsDict(p) /\ Has(p, "name"))
            IN [raised |-> \E i \in 1..Len(named) : Unhashable(named[i].d.name),
                names |-> {named[i].d.name : i \in 1..Len(named)}]
        \* the loop over the requires entries of one composite; i is the 0-based index
        RequiresWarnings(requires, defined_params, i) ==
            InOrder([k \in 1..Len(requires) |->
                        IF Unhashable(requires[k]) THEN Raises
                        ELSE IF requires[k] \notin defined_params
                        THEN add_warning("composites[{i}].requires", <<i>>,
                                            "Required parameter not defined in parameters section")
                        ELSE NoMessages])
        \* one iteration of the loop of _validate_composites_section; i is the 0-based index
        ValidateComposite(comp, defined_params, i) ==
            IF ~IsDict(comp)
            THEN add_error("composites[{i}]", <<i>>, "Each composite must be a mapping")
            ELSE InOrder(<<
                   IF ~Has(comp, "name")
                   THEN add_error("composites[{i}].name", <<i>>, "Missing required field 'name'")
                   ELSE NoMessages,
                   IF ~Has(comp, "requires")
                   THEN add_error("composites[{i}].requires", <<i>>,
                                     "Missing required field 'requires'")
                   ELSE IF ~IsList(comp.d.requires)
                   THEN add_error("composites[{i}].requires", <<i>>,
                                     "Must be a list of parameter names")
                   ELSE RequiresWarnings(comp.d.requires.l, defined_params, i)>>)
    IN
        IF ~Has(data, "composites") THEN NoMessages
        ELSE IF ~IsList(data.d.composites) THEN add_error("composites", <<>>, "Section must be a list")
        ELSE LET parameters == Get(data, "parameters", PyList(<<>>))
             IN IF NotIterable(parameters) THEN Raises
                ELSE LET defined == DefinedParams(Iterate(parameters))
                     IN IF defined.raised THEN Raises
                        ELSE InOrder([i \in 1..Len(data.d.composites.l) |->
                                        ValidateComposite(data.d.composites.l[i],
                                                          defined.names, i - 1)])

\* ModelValidator(filename).validate(), the file holding `file`: the errors and
\* warnings of the validator, whether the call raised instead of returning, and
\* what it returned. open() and safe_load() are guarded against yaml.YAMLError and
\* FileNotFoundError only; any other failure to read leaves the call as an
\* exception
validate(file) ==
    LET \* the nine section checks of validate(), in the order it calls them
        ValidateSections(data) ==
            InOrder(<<validate_model_section(data), validate_dimensions_section(data),
                      validate_source_section(data), validate_grid_section(data),
                      validate_schedule_section(data), validate_retention_section(data),
                      validate_precaching_section(data), validate_parameters_section(data),
                      validate_composites_section(data)>>)
    IN
        CASE file.read = "syntax_error" ->
                [errors |-> <<ValidationError("(file)", <<>>, "Invalid YAML syntax")>>,
                 warnings |-> <<>>, raised |-> FALSE, ret |-> FALSE]
          [] file.read = "not_found" ->
                [errors |-> <<ValidationError("(file)", <<>>, "File not found")>>,
                 warnings |-> <<>>, raised |-> FALSE, ret |-> FALSE]
          [] file.read = "unreadable" ->
                [errors |-> <<>>, warnings |-> <<>>, raised |-> TRUE, ret |-> FALSE]
          [] file.read = "ok" ->
                IF ~IsDict(file.data)
                THEN [errors |-> <<ValidationError("(root)", <<>>, "Root must be a YAML mapping/dictionary")>>,
                      warnings |-> <<>>, raised |-> FALSE, ret |-> FALSE]
                ELSE LET r == ValidateSections(file.data)
                     IN [errors |-> r.errors, warnings |-> r.warnings, raised |-> r.raised,
                         ret |-> (~r.raised /\ Len(r.errors) = 0)]

(***************************************************************************)
(* Model validator, main().                                                *)
(***************************************************************************)
\* the names a directory can hold, in sorted order
YamlNames == <<"a.yaml", "b.yaml", "c.yaml", "d.yaml">>
\* the directories of at most n files
DirsUpTo(n) == {{YamlNames[i] : i \in 1..k} : k \in 0..n}
\* sorted(script_dir.glob("*.yaml"))
SortedGlob(names) == SelectSeq(YamlNames, LAMBDA n : n \in names)

\* the command lines: no file argument, or at most MaxArgs of them, each a
\* file of the directory, a file that does not exist or the script itself
ModelArgValues == SeqsUpTo({"a.yaml", "missing.yaml", "validate.py"}, MaxArgs)

\* main: the files to validate, the no-files exit, the counters
ModelMainStart ==
    /\ tool = "models"
    /\ pc = "start"
    /\ files' = IF argv # <<>> THEN argv ELSE SortedGlob(dir)
    /\ IF files' = <<>>
       THEN /\ pc' = "exited"
            /\ exit_code' = 2
       ELSE /\ pc' = "loop"
            /\ UNCHANGED exit_code
    /\ total_errors' = 0
    /\ total_warnings' = 0
    /\ idx' = 0
    /\ reported' = <<>>
    /\ call' = NoCall
    /\ any_error' = FALSE
    /\ any_warning' = FALSE
    /\ UNCHANGED <<environment, dumper, all_layer_ids, first_seen, first, fn_in, fn_out>>

\* main: an iteration of "for filepath in files" that skips the script
ModelMainSkip ==
    /\ tool = "models"
    /\ pc = "loop"
    /\ idx < Len(files)
    /\ files[idx + 1] = "validate.py"
    /\ idx' = idx + 1
    /\ UNCHANGED <<environment, dumper, pc, files, all_layer_ids, total_errors, total_warnings,
                   exit_code, reported, call, first_seen, any_error, any_warning,
                   first, fn_in, fn_out>>

\* main: an iteration of "for filepath in files" that validates, the file
\* holding `file`; an exception validate() raises ends the process with a
\* traceback and status 1
ModelMainValidate(file) ==
    /\ tool = "models"
    /\ pc = "loop"
    /\ idx < Len(files)
    /\ files[idx + 1] # "validate.py"
    /\ (file.read = "not_found") <=> (files[idx + 1] \notin dir)
    /\ \E r \in {validate(file)} :
          /\ call' = [made |-> TRUE, file |-> files[idx + 1], read |-> file.read,
                      raised |-> r.raised, is_valid |-> r.ret,
                      n_errors |-> Len(r.errors), n_warnings |-> Len(r.warnings)]
          /\ reported' = Recorded([file |-> files[idx + 1], read |-> file.read,
                                   errors |-> r.errors, warnings |-> r.warnings])
          /\ IF r.raised
             THEN /\ pc' = "crashed"
                  /\ exit_code' = 1
                  /\ UNCHANGED <<idx, total_errors, total_warnings, any_error, any_warning>>
             ELSE /\ total_errors' = IF r.ret THEN total_errors
                                     ELSE total_errors + Len(r.errors)
                  /\ total_warnings' = total_warnings + Len(r.warnings)
                  /\ idx' = idx + 1
                  /\ any_error' = (any_error \/ r.errors # <<>>)
                  /\ any_warning' = (any_warning \/ r.warnings # <<>>)
                  /\ UNCHANGED <<pc, exit_code>>
    /\ UNCHANGED <<environment, dumper, files, all_layer_ids, first_seen, first, fn_in, fn_out>>

\* mutant of ModelExitStatus: warnings fail the run
ModelExitStatus_WarningsFail(errors, warnings) ==
    IF errors = 0 /\ warnings = 0 THEN 0 ELSE 1

\* main, "Summary": the exit status
ModelExitStatus(errors, warnings) ==
    IF errors = 0 THEN 0 ELSE 1

ModelMainSummary ==
    /\ tool = "models"
    /\ pc = "loop"
    /\ idx = Len(files)
    /\ pc' = "exited"
    /\ exit_code' = ModelExitStatus(total_errors, total_warnings)
    /\ UNCHANGED <<environment, dumper, files, idx, all_layer_ids, total_errors, total_warnings,
                   reported, call, first_seen, any_error, any_warning, first,
                   fn_in, fn_out>>

\* mapping with key set to value
With(m, key, value) == PyDict((key :> value) @@ m.d)
\* mapping without key
Without(m, key) == PyDict([k \in DOMAIN m.d \ {key} |-> m.d[k]])

\* a model document that validate() accepts without a message
GoodModel ==
    PyDict([model |-> PyDict([id |-> PyChars(<<"g", "f", "s">>), name |-> PyStr("GFS")]),
            dimensions |-> PyDict([type |-> PyStr("forecast"), run |-> PyBool(TRUE),
                                   forecast |-> PyBool(TRUE)]),
            source |-> PyDict([type |-> PyChars(AwsS3), bucket |-> PyStr("noaa-gfs"),
                               region |-> PyStr("us-east-1")]),
            grid |-> PyDict([projection |-> PyStr("geographic"),
                             bbox |-> PyDict([min_lon |-> PyInt(0), min_lat |-> PyInt(-90),
                                              max_lon |-> PyInt(360), max_lat |-> PyInt(90)])]),
            schedule |-> PyDict([type |-> PyStr("forecast"),
                                 cycles |-> PyList(<<PyInt(0), PyInt(12)>>),
                                 forecast_hours |-> PyDict([start |-> PyInt(0),
                                                            end |-> PyInt(48)]),
                                 poll_interval_secs |-> PyInt(60)]),
            retention |-> PyDict([hours |-> PyInt(24)]),
            parameters |-> PyList(<<PyDict([name |-> PyStr("TMP"),
                                            levels |-> PyList(<<PyDict([type |-> PyStr("surface")])>>),
                                            style |-> PyStr("temperature")])>>),
            composites |-> PyList(<<PyDict([name |-> PyStr("feels_like"),
                                            requires |-> PyList(<<PyStr("TMP")>>)])>>)])

\* the model documents of the runs: the good one; one with warnings only; ones
\* with errors; one with errors and warnings; ones on which a check raises
ModelDocumentValues ==
    {GoodModel,
     Without(GoodModel, "retention"),
     Without(GoodModel, "grid"),
     Without(Without(GoodModel, "schedule"), "parameters"),
     Without(With(GoodModel, "source", PyDict([type |-> PyChars(AwsS3)])), "dimensions"),
     With(GoodModel, "source", PyDict([type |-> PyInt(5)])),
     With(GoodModel, "parameters", None)}

\* what the model files of the runs hold
ModelFileValues ==
    {ReadFails("syntax_error"), ReadFails("not_found"), ReadFails("unreadable"),
     ReadOk(None), ReadOk(PyList(<<>>))}
    \cup {ReadOk(d) : d \in ModelDocumentValues}

ModelInit ==
    /\ tool = "models"
    /\ argv \in ModelArgValues
    /\ dir \in DirsUpTo(MaxFiles)
    /\ disk = <<>>
    /\ pc = "start"
    /\ NotStarted
    /\ fn_in = None
    /\ fn_out = None

ModelNext ==
    \/ ModelMainStart
    \/ ModelMainSkip
    \/ \E file \in ModelFileValues : ModelMainValidate(file)
    \/ ModelMainSummary

\* a run of the model validator
SpecModel == ModelInit /\ [][ModelNext]_vars

(***************************************************************************)
(* validate() as a function: every document of ValidateModelValues is      *)
(* validated once. The documents are GoodModel with some sections absent,  *)
(* and GoodModel with one section varied.                                  *)
(***************************************************************************)
ValidateModelValues ==
    LET Complete == With(GoodModel, "precaching", PyDict([enabled |-> PyBool(TRUE)]))
        \* Complete restricted to the sections of `present`
        Sections(present) == PyDict([k \in present |-> Complete.d[k]])
        PresenceValues == {Sections(present) : present \in SUBSET DOMAIN Complete.d}
        Numbers == {PyInt(-5), PyInt(5), PyFloat(5), PyInt(10)}
        GridValues ==
            {PyDict([projection |-> PyStr("geographic"),
                     bbox |-> PyDict([min_lon |-> a, max_lon |-> b, min_lat |-> c, max_lat |-> d])]) :
                a \in Numbers, b \in Numbers, c \in Numbers, d \in Numbers}
        Text(cs) == PyChars(cs)
        SourceValues ==
            {PyDict(Field("type", type) @@ Field("bucket", bucket) @@ Field("region", region)) :
                type \in {Absent, Text(AwsS3), Text(AwsS3 \o <<"_", "g", "o", "e", "s">>),
                          Text(AwsS3 \o <<"_", "g", "r", "i", "b", "2">>),
                          Text(<<"l", "o", "c", "a", "l">>), Text(<<"h", "t", "t", "p">>),
                          Text(AwsS3 \o <<"_", "x">>), Text(<<"f", "t", "p">>),
                          Text(<<"s", "3">>), Text(<<>>)},
                bucket \in {Absent, PyStr("noaa-gfs")},
                region \in {Absent, PyStr("us-east-1")}}
        LevelValues ==
            {PyDict(Field("type", type) @@ Field("value", value) @@ Field("values", values)) :
                type \in {Absent, PyStr("surface"), PyStr("zz")},
                value \in {Absent, PyInt(2)},
                values \in {Absent, PyList(<<>>), PyList(<<PyInt(500)>>), PyInt(500)}}
        \* a first level of any kind, followed by levels of two kinds
        MoreLevels == {PyDict([type |-> PyStr("surface")]), PyDict([values |-> PyList(<<>>)])}
        ParametersValues ==
            {PyList(<<PyDict([name |-> PyStr("TMP"), levels |-> PyList(<<level>> \o more)])>>) :
                level \in LevelValues, more \in SeqsUpTo(MoreLevels, MaxEntries - 1)}
        Names == {PyStr("TMP"), PyStr("UGRD"), PyStr("XX")}
        CompositesValues ==
            {PyList(<<PyDict([name |-> PyStr("wind"), requires |-> PyList(requires)])>>) :
                requires \in SeqsUpTo(Names, MaxEntries)}
            \cup {PyList(<<PyDict([name |-> PyStr("wind")])>>),
                  PyList(<<PyDict([name |-> PyStr("wind"), requires |-> PyStr("TMP")])>>)}
        DeclaredValues ==
            {PyList(<<PyDict([name |-> PyStr("TMP"), levels |-> Complete.d.parameters.l[1].d.levels])>>),
             PyList(<<PyDict([name |-> PyStr("TMP"), levels |-> Complete.d.parameters.l[1].d.levels]),
                      PyDict([name |-> PyStr("UGRD"), levels |-> Complete.d.parameters.l[1].d.levels])>>)}
        Hours == {PyInt(-1), PyInt(0), PyInt(23), PyInt(24), PyStr("6"), PyFloat(6)}
        Bounds == {Absent, PyInt(0), PyInt(48), PyStr("0")}
        Types == {Absent, PyStr("forecast"), PyStr("observation"), PyStr("zz")}
        CyclesValues == {Absent, PyInt(6)} \cup {PyList(c) : c \in SeqsUpTo(Hours, MaxEntries)}
        ForecastHoursValues ==
            {Absent, PyInt(3), PyList(<<PyInt(0), PyInt(3)>>)}
            \cup {PyDict(Field("start", start) @@ Field("end", end)) :
                     start \in Bounds, end \in Bounds}
        \* every cycles value with two forecast_hours values, and every
        \* forecast_hours value with two cycles values
        ScheduleValues ==
            {PyDict(Field("type", type) @@ Field("cycles", cycles)
                    @@ Field("forecast_hours", forecast_hours)) :
                type \in Types, cycles \in CyclesValues,
                forecast_hours \in {Absent, PyDict([start |-> PyInt(48), end |-> PyInt(0)])}}
            \cup
            {PyDict(Field("type", type) @@ Field("cycles", cycles)
                    @@ Field("forecast_hours", forecast_hours)) :
                type \in Types, cycles \in {Absent, PyList(<<PyInt(24), PyInt(0)>>)},
                forecast_hours \in ForecastHoursValues}
    IN
        PresenceValues
        \cup {With(Complete, "grid", v) : v \in GridValues}
        \cup {With(Complete, "source", v) : v \in SourceValues}
        \cup {With(Complete, "parameters", v) : v \in ParametersValues}
        \cup {With(With(Complete, "parameters", ps), "composites", v) :
                 ps \in DeclaredValues, v \in CompositesValues}
        \cup {With(Without(Complete, "parameters"), "composites", v) : v \in CompositesValues}
        \cup {With(Complete, "schedule", v) : v \in ScheduleValues}
        \cup {Without(With(Complete, "source", PyDict([type |-> PyInt(5)])), "parameters"),
              With(Complete, "source", PyDict([type |-> PyInt(5)])),
              With(Without(Complete, "grid"), "source", PyDict([type |-> PyInt(5)]))}

ValidateModelInit ==
    /\ tool = "models"
    /\ argv = <<>>
    /\ dir = {}
    /\ disk = <<>>
    /\ pc = "function"
    /\ NotStarted
    /\ fn_in \in [data : ValidateModelValues]
    /\ fn_out = [done |-> FALSE]

\* one call ModelValidator(filename).validate() on a file that holds fn_in.data;
\* by_section keeps what each section check records when it is run on the document
ApplyValidate ==
    /\ tool = "models"
    /\ pc = "function"
    /\ ~fn_out.done
    /\ \E r \in {validate(ReadOk(fn_in.data))} :
          fn_out' = [done |-> TRUE, errors |-> r.errors, warnings |-> r.warnings,
                     raised |-> r.raised, ret |-> r.ret,
                     by_section |->
                         [source |-> validate_source_section(fn_in.data),
                          grid |-> validate_grid_section(fn_in.data),
                          schedule |-> validate_schedule_section(fn_in.data),
                          parameters |-> validate_parameters_section(fn_in.data),
                          composites |-> validate_composites_section(fn_in.data)]]
    /\ UNCHANGED <<environment, dumper, pc, files, idx, all_layer_ids, total_errors, total_warnings,
                   exit_code, reported, call, first_seen, any_error, any_warning,
                   first, fn_in>>

SpecValidateModel == ValidateModelInit /\ [][ApplyValidate]_vars

(***************************************************************************)
(* Properties of the model validator.                                      *)
(***************************************************************************)
\* C3: a file is valid exactly when validate() recorded no error for it, whatever
\* its warnings; a run that comes to its summary exits 0 when every file
\* validated was valid and 1 when one of them was not; a run that finds no file
\* to validate exits 2.
C3_ModelExitStatus ==
    /\ (call.made /\ ~call.raised) => (call.is_valid <=> call.n_errors = 0)
    /\ pc = "exited" =>
          exit_code = (IF files = <<>> THEN 2 ELSE IF any_error THEN 1 ELSE 0)

\* C3 witness: a run with a valid file that has warnings, that exits 0
C3_ValidWithWarnings ==
    /\ pc = "exited" /\ exit_code = 0
    /\ call.made /\ call.is_valid /\ call.n_warnings > 0

\* C6 as claimed, for the model validator: a file that cannot be read or parsed
\* is counted with one error and is not valid, and the run goes on to the
\* files that remain instead of ending there.
C6_StructuralFailureModel ==
    (call.made /\ call.read # "ok") =>
        /\ ~call.raised /\ ~call.is_valid /\ call.n_errors = 1
        /\ pc # "crashed"

(***************************************************************************)
(* Style validator: src/config/styles/validate_styles.py                   *)
(***************************************************************************)
VALID_STYLE_TYPES == {"gradient", "contour", "filled_contour", "wind_barbs", "wind_arrows",
                      "numbers"}
VALID_TRANSFORM_TYPES == {"none", "linear", "pa_to_hpa", "mps_to_knots", "k_to_c", "m_to_km"}
VALID_INTERPOLATION_TYPES == {"linear", "step", "nearest"}
VALID_OUT_OF_RANGE_TYPES == {"clamp", "extend", "transparent"}

\* HEX_COLOR_PATTERN.match(text), r"^#[0-9A-Fa-f]{6}([0-9A-Fa-f]{2})?$"; `$`
\* also matches before a final newline
HEX_COLOR_PATTERN(cs) ==
    LET HexDigits == {"0", "1", "2", "3", "4", "5", "6", "7", "8", "9",
                      "a", "b", "c", "d", "e", "f", "A", "B", "C", "D", "E", "F"}
    IN
        LET body == IF cs # <<>> /\ cs[Len(cs)] = "\n" THEN SubSeq(cs, 1, Len(cs) - 1) ELSE cs
        IN /\ Len(body) \in {7, 9}
           /\ body[1] = "#"
           /\ \A i \in 2..Len(body) : body[i] \in HexDigits

\* a JSON object whose members are kept in document order, as
\* data["styles"].items() yields them
PyObject(keys, d) == [t |-> "dict", d |-> d, keys |-> keys]

\* ValidationError(file, path, message) without its file, which validate_file
\* of the style validator adds; path is the dotted path in parts and `at` the
\* indexes it interpolates
style_error(path, at, msg) == AddErrors(<<[path |-> path, at |-> at, msg |-> msg]>>)

\* validate_color(color, path, errors, file)
validate_color(color, path, at) ==
    LET Transparent == <<"t", "r", "a", "n", "s", "p", "a", "r", "e", "n", "t">>
    IN
        IF StrIs(color, Transparent) THEN NoMessages
        ELSE IF ~IsStr(color) THEN style_error(path, at, "Color must be string")
        ELSE IF ~HEX_COLOR_PATTERN(color.cs) THEN style_error(path, at, "Invalid color format")
        ELSE NoMessages

\* validate_stop(stop, index, path, errors, file)
validate_stop(stop, index, path) ==
    LET stop_path == path \o <<"[index]">>
    IN IF ~IsDict(stop) THEN style_error(stop_path, <<index>>, "Stop must be object")
       ELSE InOrder(<<
              IF ~Has(stop, "value")
              THEN style_error(stop_path, <<index>>, "Missing required field 'value'")
              ELSE IF ~IsNumber(stop.d.value)
              THEN style_error(stop_path \o <<"value">>, <<index>>, "Value must be number")
              ELSE NoMessages,
              IF ~Has(stop, "color")
              THEN style_error(stop_path, <<index>>, "Missing required field 'color'")
              ELSE validate_color(stop.d.color, stop_path \o <<"color">>, <<index>>),
              IF Has(stop, "label") /\ ~IsStr(stop.d.label)
              THEN style_error(stop_path \o <<"label">>, <<index>>, "Label must be string")
              ELSE NoMessages>>)

\* `field in obj and obj[field] not in VOCABULARY` guarding an error: the
\* membership test hashes the value
VocabularyError(obj, field, vocabulary, path, msg) ==
    IF ~Has(obj, field) THEN NoMessages
    ELSE IF Unhashable(obj.d[field]) THEN Raises
    ELSE IF ~InVocabulary(obj.d[field], vocabulary)
    THEN style_error(path \o <<field>>, <<>>, msg)
    ELSE NoMessages

\* isinstance(v, type), for the types the style validator tests fields against
isinstance(v, type) ==
    CASE type = "number" -> IsNumber(v)
      [] type = "str" -> IsStr(v)
      [] type = "bool" -> IsBool(v)

\* `field in obj and not isinstance(obj[field], type)` guarding an error
TypeError(obj, field, type, path, msg) ==
    IF Has(obj, field) /\ ~isinstance(obj.d[field], type)
    THEN style_error(path \o <<field>>, <<>>, msg)
    ELSE NoMessages

\* the loops over number_fields
NumberFieldErrors(obj, number_fields, path) ==
    InOrder([i \in 1..Len(number_fields) |->
                TypeError(obj, number_fields[i], "number", path, "Field must be number")])

\* mutant of validate_transform: a linear transform must have scale and offset
validate_transform_ScaleRequired(transform, path) ==
    IF ~IsDict(transform) THEN style_error(path, <<>>, "Transform must be object")
    ELSE InOrder(<<
           IF ~Has(transform, "type")
           THEN style_error(path, <<>>, "Missing required field 'type'")
           ELSE VocabularyError(transform, "type", VALID_TRANSFORM_TYPES, path,
                                "Invalid transform type"),
           IF StrIs(Get(transform, "type", None), "linear")
           THEN Then(TypeError(With(transform, "scale", Get(transform, "scale", None)),
                               "scale", "number", path, "Scale must be a number"),
                     TypeError(With(transform, "offset", Get(transform, "offset", None)),
                               "offset", "number", path, "Offset must be a number"))
           ELSE NoMessages>>)

\* validate_transform(transform, path, errors, file)
validate_transform(transform, path) ==
    IF ~IsDict(transform) THEN style_error(path, <<>>, "Transform must be object")
    ELSE InOrder(<<
           IF ~Has(transform, "type")
           THEN style_error(path, <<>>, "Missing required field 'type'")
           ELSE VocabularyError(transform, "type", VALID_TRANSFORM_TYPES, path,
                                "Invalid transform type"),
           IF StrIs(Get(transform, "type", None), "linear")
           THEN Then(TypeError(transform, "scale", "number", path, "Scale must be a number"),
                     TypeError(transform, "offset", "number", path, "Offset must be a number"))
           ELSE NoMessages>>)

\* validate_range(range_obj, path, errors, file)
validate_range(range_obj, path) ==
    IF ~IsDict(range_obj) THEN style_error(path, <<>>, "Range must be object")
    ELSE InOrder(<<
           TypeError(range_obj, "min", "number", path, "Min must be a number"),
           TypeError(range_obj, "max", "number", path, "Max must be a number"),
           IF /\ Has(range_obj, "min") /\ Has(range_obj, "max")
              /\ IsNumber(range_obj.d.min) /\ IsNumber(range_obj.d.max)
              /\ NumberOf(range_obj.d.min) >= NumberOf(range_obj.d.max)
           THEN style_error(path, <<>>, "Min must be less than max")
           ELSE NoMessages>>)

\* validate_legend(legend, path, errors, file)
validate_legend(legend, path) ==
    IF ~IsDict(legend) THEN style_error(path, <<>>, "Legend must be object")
    ELSE InOrder(<<
           TypeError(legend, "title", "str", path, "Title must be string"),
           IF ~Has(legend, "labels") THEN NoMessages
           ELSE IF ~IsList(legend.d.labels)
           THEN style_error(path \o <<"labels">>, <<>>, "Labels must be array")
           ELSE InOrder([i \in 1..Len(legend.d.labels.l) |->
                            IF ~IsStr(legend.d.labels.l[i])
                            THEN style_error(path \o <<"labels[i]">>, <<i - 1>>,
                                             "Label must be string")
                            ELSE NoMessages])>>)

\* `if field in obj: validate_color(obj[field], path.field, ...)`
ColorFieldErrors(obj, field, path) ==
    IF Has(obj, field) THEN validate_color(obj.d[field], path \o <<field>>, <<>>)
    ELSE NoMessages

\* validate_contour(contour, path, errors, file)
validate_contour(contour, path) ==
    IF ~IsDict(contour) THEN style_error(path, <<>>, "Contour must be object")
    ELSE InOrder(<<
           NumberFieldErrors(contour,
                             <<"interval", "base", "min_value", "max_value", "line_width",
                               "major_interval", "major_line_width", "label_font_size",
                               "smoothing_passes">>, path),
           ColorFieldErrors(contour, "line_color", path),
           TypeError(contour, "labels", "bool", path, "Labels must be boolean")>>)

\* validate_wind(wind, path, errors, file)
validate_wind(wind, path) ==
    IF ~IsDict(wind) THEN style_error(path, <<>>, "Wind must be object")
    ELSE InOrder(<<
           NumberFieldErrors(wind,
                             <<"spacing", "size", "line_width", "calm_threshold",
                               "min_length", "max_length">>, path),
           ColorFieldErrors(wind, "color", path),
           TypeError(wind, "direction_from", "bool", path, "direction_from must be boolean")>>)

\* `for i, stop in enumerate(stops): validate_stop(stop, i, path.stops, ...)`
StopsErrors(stops, path) ==
    InOrder([i \in 1..Len(stops) |-> validate_stop(stops[i], i - 1, path \o <<"stops">>)])

\* validate_color_by_speed(cbs, path, errors, file)
validate_color_by_speed(cbs, path) ==
    IF ~IsDict(cbs) THEN style_error(path, <<>>, "color_by_speed must be object")
    ELSE InOrder(<<
           TypeError(cbs, "enabled", "bool", path, "enabled must be boolean"),
           IF ~Has(cbs, "stops") THEN NoMessages
           ELSE IF ~IsList(cbs.d.stops)
           THEN style_error(path \o <<"stops">>, <<>>, "stops must be array")
           ELSE StopsErrors(cbs.d.stops.l, path),
           VocabularyError(cbs, "interpolation", VALID_INTERPOLATION_TYPES, path,
                           "Invalid interpolation")>>)

\* validate_numbers(numbers, path, errors, file)
validate_numbers(numbers, path) ==
    IF ~IsDict(numbers) THEN style_error(path, <<>>, "Numbers must be object")
    ELSE InOrder(<<
           NumberFieldErrors(numbers, <<"spacing", "font_size", "decimal_places">>, path),
           ColorFieldErrors(numbers, "font_color", path),
           ColorFieldErrors(numbers, "background_color", path)>>)

\* validate_style(style_id, style, path, errors, file)
validate_style(style_id, style, path) ==
    LET \* validate_style, "Optional common fields"
        CommonFieldErrors ==
            InOrder(<<
              TypeError(style, "name", "str", path, "Name must be string"),
              TypeError(style, "description", "str", path, "Description must be string"),
              TypeError(style, "units", "str", path, "Units must be string"),
              IF Has(style, "transform")
              THEN validate_transform(style.d.transform, path \o <<"transform">>) ELSE NoMessages,
              IF Has(style, "range")
              THEN validate_range(style.d.range, path \o <<"range">>) ELSE NoMessages,
              IF Has(style, "legend")
              THEN validate_legend(style.d.legend, path \o <<"legend">>) ELSE NoMessages>>)
        \* validate_style, the branch of gradient and filled_contour
        GradientErrors ==
            InOrder(<<
              IF ~Has(style, "stops")
              THEN style_error(path, <<>>, "Style type requires 'stops' array")
              ELSE IF ~IsList(style.d.stops)
              THEN style_error(path \o <<"stops">>, <<>>, "Stops must be array")
              ELSE IF Len(style.d.stops.l) < 2
              THEN style_error(path \o <<"stops">>, <<>>, "Stops must have at least 2 entries")
              ELSE StopsErrors(style.d.stops.l, path),
              VocabularyError(style, "interpolation", VALID_INTERPOLATION_TYPES, path,
                              "Invalid interpolation"),
              VocabularyError(style, "out_of_range", VALID_OUT_OF_RANGE_TYPES, path,
                              "Invalid out_of_range")>>)
        \* validate_style, "Type-specific validation"
        TypeSpecificErrors(style_type) ==
            CASE style_type \in {"gradient", "filled_contour"} -> GradientErrors
              [] style_type = "contour" ->
                    IF Has(style, "contour")
                    THEN validate_contour(style.d.contour, path \o <<"contour">>) ELSE NoMessages
              [] style_type \in {"wind_barbs", "wind_arrows"} ->
                    Then(IF Has(style, "wind")
                         THEN validate_wind(style.d.wind, path \o <<"wind">>) ELSE NoMessages,
                         IF Has(style, "color_by_speed")
                         THEN validate_color_by_speed(style.d.color_by_speed,
                                                      path \o <<"color_by_speed">>)
                         ELSE NoMessages)
              [] style_type = "numbers" ->
                    IF Has(style, "numbers")
                    THEN validate_numbers(style.d.numbers, path \o <<"numbers">>) ELSE NoMessages
    IN
        IF ~IsDict(style) THEN style_error(path, <<>>, "Style must be object")
        ELSE IF ~Has(style, "type") THEN style_error(path, <<>>, "Missing required field 'type'")
        ELSE IF Unhashable(style.d.type) THEN Raises
        ELSE IF ~InVocabulary(style.d.type, VALID_STYLE_TYPES)
        THEN style_error(path \o <<"type">>, <<>>, "Invalid style type")
        ELSE Then(CommonFieldErrors,
                  TypeSpecificErrors(style.d.type.s))

\* validate_file(filepath, verbose) of the style validator, the file holding
\* `file`: the errors it returns, each with the file name, or a raise
style_validate_file(file, filename) ==
    LET \* validate_file, "Validate each style": the entries in document order, those
        \* whose key starts with "_" skipped
        StyleEntriesErrors(styles) ==
            InOrder([i \in 1..Len(styles.keys) |->
                        IF StartsWith(styles.keys[i], <<"_">>) THEN NoMessages
                        ELSE validate_style(styles.keys[i], styles.d[styles.keys[i]],
                                            <<"styles", styles.keys[i]>>)])
        \* validate_file, the checks of a document whose root is an object
        StyleDocumentErrors(data) ==
            InOrder(<<
              IF ~Has(data, "version")
              THEN style_error(<<"root">>, <<>>, "Missing required field 'version'")
              ELSE IF ~StrIs(data.d.version, "1.0")
              THEN style_error(<<"version">>, <<>>, "Unknown version")
              ELSE NoMessages,
              IF Has(data, "metadata") /\ ~IsDict(data.d.metadata)
              THEN style_error(<<"metadata">>, <<>>, "Metadata must be object")
              ELSE NoMessages,
              IF ~Has(data, "styles")
              THEN style_error(<<"root">>, <<>>, "Missing required field 'styles'")
              ELSE IF ~IsDict(data.d.styles)
              THEN style_error(<<"styles">>, <<>>, "Styles must be object")
              ELSE StyleEntriesErrors(data.d.styles)>>)
    IN
        LET r == CASE file.read = "syntax_error" ->
                         style_error(<<"root">>, <<>>, "Invalid JSON")
                   [] file.read = "unreadable" ->
                         style_error(<<"root">>, <<>>, "Could not read file")
                   [] file.read = "ok" ->
                         IF ~IsDict(file.data)
                         THEN style_error(<<"root">>, <<>>, "Root must be object")
                         ELSE StyleDocumentErrors(file.data)
        IN [errors |-> [i \in 1..Len(r.errors) |->
                           [file |-> filename, path |-> r.errors[i].path,
                            at |-> r.errors[i].at, msg |-> r.errors[i].msg]],
            raised |-> r.raised]

(***************************************************************************)
(* Style validator, main().                                                *)
(***************************************************************************)
\* the *.json names a directory can hold, in sorted order
JsonNames == <<"a.json", "b.json", "c.json", "d.json", "schema.example.json">>
\* the directories of at most n style files, with and without the schema example
StyleDirsUpTo(n) ==
    {{JsonNames[i] : i \in 1..k} \cup extra :
        k \in 0..n, extra \in {{}, {"schema.example.json"}}}
\* sorted([f for f in styles_dir.glob("*.json") if f.name != "schema.example.json"])
SortedStyleFiles(names) ==
    SelectSeq(JsonNames, LAMBDA n : n \in names /\ n # "schema.example.json")

\* main: the files to validate, the no-files exit; total_errors is
\* len(all_errors)
StyleMainStart ==
    /\ tool = "styles"
    /\ pc = "start"
    /\ files' = SortedStyleFiles(dir)
    /\ IF files' = <<>>
       THEN /\ pc' = "exited"
            /\ exit_code' = 1
       ELSE /\ pc' = "loop"
            /\ UNCHANGED exit_code
    /\ total_errors' = 0
    /\ idx' = 0
    /\ reported' = <<>>
    /\ call' = NoCall
    /\ any_error' = FALSE
    /\ UNCHANGED <<environment, dumper, all_layer_ids, total_warnings, first_seen, any_warning,
                   first, fn_in, fn_out>>

\* main: one iteration of "for filepath in json_files", the file holding
\* `file`; an exception validate_file raises ends the process with a traceback
\* and status 1
StyleMainValidate(file) ==
    /\ tool = "styles"
    /\ pc = "loop"
    /\ idx < Len(files)
    /\ \E r \in {style_validate_file(file, files[idx + 1])} :
          /\ call' = [made |-> TRUE, file |-> files[idx + 1], read |-> file.read,
                      raised |-> r.raised, n_errors |-> Len(r.errors)]
          /\ reported' = Recorded([file |-> files[idx + 1], read |-> file.read,
                                   errors |-> r.errors, warnings |-> <<>>])
          /\ IF r.raised
             THEN /\ pc' = "crashed"
                  /\ exit_code' = 1
                  /\ UNCHANGED <<idx, total_errors, any_error>>
             ELSE /\ total_errors' = total_errors + Len(r.errors)
                  /\ idx' = idx + 1
                  /\ any_error' = (any_error \/ r.errors # <<>>)
                  /\ UNCHANGED <<pc, exit_code>>
    /\ UNCHANGED <<environment, dumper, files, all_layer_ids, total_warnings, first_seen,
                   any_warning, first, fn_in, fn_out>>

\* mutant of StyleExitStatus: the run succeeds whatever was found
StyleExitStatus_AlwaysZero(all_errors) == 0

\* main, "Print summary": the exit status, from len(all_errors)
StyleExitStatus(all_errors) == IF all_errors # 0 THEN 1 ELSE 0

StyleMainSummary ==
    /\ tool = "styles"
    /\ pc = "loop"
    /\ idx = Len(files)
    /\ pc' = "exited"
    /\ exit_code' = StyleExitStatus(total_errors)
    /\ UNCHANGED <<environment, dumper, files, idx, all_layer_ids, total_errors, total_warnings,
                   reported, call, first_seen, any_error, any_warning, first,
                   fn_in, fn_out>>

HexBlue == PyChars(<<"#", "0", "0", "0", "0", "F", "F">>)
HexRed == PyChars(<<"#", "f", "f", "0", "0", "0", "0", "8", "0">>)
StyleTemp == <<"t", "e", "m", "p">>
StyleComment == <<"_", "c">>

\* a gradient style the validator accepts
GoodGradient ==
    PyDict([type |-> PyStr("gradient"), name |-> PyStr("Temperature"),
            stops |-> PyList(<<PyDict([value |-> PyInt(0), color |-> HexBlue]),
                               PyDict([value |-> PyFloat(40), color |-> HexRed])>>)])

\* the style document with the given entries
StyleDocument(keys, entries) ==
    PyDict([version |-> PyStr("1.0"), metadata |-> EmptyDict,
            styles |-> PyObject(keys, entries)])

\* the style documents of the runs: documents the validator accepts (one with
\* a comment entry that is not a style), documents with errors, and one on
\* which a check raises
StyleDocumentValues ==
    {StyleDocument(<<StyleTemp>>, StyleTemp :> GoodGradient),
     StyleDocument(<<StyleComment, StyleTemp>>,
                   (StyleComment :> PyStr("comment")) @@ (StyleTemp :> GoodGradient)),
     StyleDocument(<<StyleTemp>>, StyleTemp :> Without(GoodGradient, "stops")),
     StyleDocument(<<StyleTemp>>, StyleTemp :> PyDict([type |-> PyStr("heatmap")])),
     Without(StyleDocument(<<>>, <<>>), "version"),
     Without(Without(StyleDocument(<<>>, <<>>), "version"), "styles"),
     StyleDocument(<<StyleTemp>>,
                   StyleTemp :> With(GoodGradient, "stops",
                                     PyList(<<PyDict([value |-> PyStr("0"),
                                                      color |-> PyChars(<<"r", "e", "d">>)]),
                                              PyInt(3)>>))),
     StyleDocument(<<StyleTemp>>, StyleTemp :> PyDict([type |-> PyList(<<>>)]))}

\* what the style files of the runs hold
StyleFileValues ==
    {ReadFails("syntax_error"), ReadFails("unreadable"), ReadOk(PyList(<<>>))}
    \cup {ReadOk(d) : d \in StyleDocumentValues}

StyleInit ==
    /\ tool = "styles"
    /\ argv = <<>>
    /\ dir \in StyleDirsUpTo(MaxFiles)
    /\ disk = <<>>
    /\ pc = "start"
    /\ NotStarted
    /\ fn_in = None
    /\ fn_out = None

StyleNext ==
    \/ StyleMainStart
    \/ \E file \in StyleFileValues : StyleMainValidate(file)
    \/ StyleMainSummary

\* a run of the style validator
SpecStyle == StyleInit /\ [][StyleNext]_vars

(***************************************************************************)
(* validate_file of the style validator, statement by statement, on a      *)
(* document that was read and parsed: the checks of the document, then one *)
(* iteration of the loop over data["styles"].items() per step.             *)
(***************************************************************************)
StyleWind == <<"w", "i", "n", "d">>

\* the values of the entries of a styles mapping: a style without error, a
\* gradient without stops, an entry without type, an entry that is no mapping,
\* and an entry whose type is a list
StyleEntryValues ==
    {GoodGradient,
     Without(GoodGradient, "stops"),
     PyDict([name |-> PyInt(3)]),
     PyStr("comment"),
     PyDict([type |-> PyList(<<>>), name |-> PyInt(3)])}

\* the styles mappings of at most n entries, in every order of their keys
StylesUpTo(n) ==
    LET Keys == {StyleTemp, StyleWind, StyleComment}
        KeyLists == {keys \in SeqsUpTo(Keys, n) :
                        \A i, j \in 1..Len(keys) : keys[i] = keys[j] => i = j}
    IN UNION {{PyObject(keys, [k \in {keys[i] : i \in 1..Len(keys)} |->
                                  entries[CHOOSE i \in 1..Len(keys) : keys[i] = k]]) :
                  entries \in [1..Len(keys) -> StyleEntryValues]} :
              keys \in KeyLists}

\* the parsed documents validate_file is given: every styles mapping under
\* five headers, documents without a styles mapping, and roots that are no object
StyleFileDocuments ==
    LET Headers ==
            {[version |-> PyStr("1.0"), metadata |-> EmptyDict],
             [version |-> PyStr("1.0"), metadata |-> Absent],
             [version |-> Absent, metadata |-> EmptyDict],
             [version |-> PyStr("2.0"), metadata |-> PyStr("x")],
             [version |-> PyFloat(1), metadata |-> PyList(<<>>)]}
    IN {PyDict(Field("version", h.version) @@ Field("metadata", h.metadata)
               @@ Field("styles", styles)) :
           h \in Headers,
           styles \in {Absent, PyList(<<>>), None} \cup StylesUpTo(MaxStyles)}
       \cup {PyList(<<>>), None}

\* mutant of StyleDocumentChecks: the version and the metadata are not looked at
StyleDocumentChecks_StylesOnly(data) ==
    IF ~IsDict(data) THEN style_error(<<"root">>, <<>>, "Root must be object")
    ELSE IF ~Has(data, "styles")
    THEN style_error(<<"root">>, <<>>, "Missing required field 'styles'")
    ELSE IF ~IsDict(data.d.styles)
    THEN style_error(<<"styles">>, <<>>, "Styles must be object")
    ELSE NoMessages

\* validate_file, from `if not isinstance(data, dict)` to the test of
\* data["styles"]: the errors of the document itself
StyleDocumentChecks(data) ==
    IF ~IsDict(data) THEN style_error(<<"root">>, <<>>, "Root must be object")
    ELSE InOrder(<<
           IF ~Has(data, "version")
           THEN style_error(<<"root">>, <<>>, "Missing required field 'version'")
           ELSE IF ~StrIs(data.d.version, "1.0")
           THEN style_error(<<"version">>, <<>>, "Unknown version")
           ELSE NoMessages,
           IF Has(data, "metadata") /\ ~IsDict(data.d.metadata)
           THEN style_error(<<"metadata">>, <<>>, "Metadata must be object")
           ELSE NoMessages,
           IF ~Has(data, "styles")
           THEN style_error(<<"root">>, <<>>, "Missing required field 'styles'")
           ELSE IF ~IsDict(data.d.styles)
           THEN style_error(<<"styles">>, <<>>, "Styles must be object")
           ELSE NoMessages>>)

StyleFileInit ==
    /\ tool = "styles"
    /\ argv = <<>>
    /\ dir = {}
    /\ disk = <<>>
    /\ pc = "function"
    /\ NotStarted
    /\ fn_in \in [data : StyleFileDocuments]
    /\ fn_out = [at |-> "document", i |-> 0, errors |-> <<>>, added |-> <<>>]

\* what the steps of validate_file leave alone
StyleFileUnchanged ==
    UNCHANGED <<environment, dumper, pc, files, idx, all_layer_ids, total_errors, total_warnings,
                exit_code, reported, call, first_seen, any_error, any_warning,
                first, fn_in>>

\* validate_file: the checks of the root, version, metadata and styles; the
\* loop is entered when styles is a mapping, and the function returns otherwise
StyleFileDocument ==
    /\ tool = "styles"
    /\ pc = "function"
    /\ fn_out.at = "document"
    /\ fn_out' = [fn_out EXCEPT
                    !.errors = StyleDocumentChecks(fn_in.data).errors,
                    !.at = IF /\ IsDict(fn_in.data)
                              /\ Has(fn_in.data, "styles")
                              /\ IsDict(fn_in.data.d.styles)
                           THEN "styles" ELSE "returned"]
    /\ StyleFileUnchanged

\* validate_file: one iteration of `for style_id, style_def in
\* data["styles"].items()`; `added` keeps what the iteration appended to errors
StyleFileEntry ==
    /\ tool = "styles"
    /\ pc = "function"
    /\ fn_out.at = "styles"
    /\ fn_out.i < Len(fn_in.data.d.styles.keys)
    /\ LET styles == fn_in.data.d.styles
           style_id == styles.keys[fn_out.i + 1]
           r == IF StartsWith(style_id, <<"_">>) THEN NoMessages
                ELSE validate_style(style_id, styles.d[style_id], <<"styles", style_id>>)
       IN fn_out' = IF r.raised
                    THEN [fn_out EXCEPT !.at = "raised"]
                    ELSE [fn_out EXCEPT !.i = @ + 1,
                                        !.errors = @ \o r.errors,
                                        !.added = Append(@, r.errors)]
    /\ StyleFileUnchanged

\* validate_file: `return errors` after the last entry
StyleFileReturn ==
    /\ tool = "styles"
    /\ pc = "function"
    /\ fn_out.at = "styles"
    /\ fn_out.i = Len(fn_in.data.d.styles.keys)
    /\ fn_out' = [fn_out EXCEPT !.at = "returned"]
    /\ StyleFileUnchanged

StyleFileNext ==
    \/ StyleFileDocument
    \/ StyleFileEntry
    \/ StyleFileReturn

\* one call of validate_file on a parsed document
SpecStyleFile == StyleFileInit /\ [][StyleFileNext]_vars

(***************************************************************************)
(* validate_style as a function: every style of StyleValues is validated   *)
(* once, under the path styles.temp.                                       *)
(***************************************************************************)
\* the values a colour field is given: the literal, hex strings of 6 and 8
\* digits, strings that are no such colour, and values that are no string
ColorValues ==
    {HexBlue, HexRed,
     PyChars(<<"t", "r", "a", "n", "s", "p", "a", "r", "e", "n", "t">>),
     PyChars(<<"#", "a", "b", "c", "d", "e", "f">>),
     PyChars(<<"r", "e", "d">>),
     PyChars(<<"#", "f", "f", "f">>),
     PyChars(<<"#", "f", "f", "0", "0", "0", "0", "0">>),
     PyChars(<<"#", "f", "f", "0", "0", "0">>),
     PyChars(<<"#", "g", "g", "0", "0", "0", "0">>),
     PyChars(<<"f", "f", "0", "0", "0", "0">>),
     PyChars(<<"#", "f", "f", "0", "0", "0", "0", "\n">>),
     PyChars(<<"T", "r", "a", "n", "s", "p", "a", "r", "e", "n", "t">>),
     PyChars(<<"#", "f", "f", "0", "0", "0", "0", "a", "a", "0">>),
     PyChars(<<>>),
     PyInt(0), None, PyList(<<>>), PyBool(TRUE)}

\* the entries of a stops list
StopValues ==
    {PyDict([value |-> PyInt(0), color |-> HexBlue]),
     PyDict([value |-> PyFloat(40), color |-> HexRed, label |-> PyStr("hot")]),
     PyDict([value |-> PyStr("0"), color |-> HexBlue]),
     PyDict([value |-> PyInt(1), color |-> PyChars(<<"r", "e", "d">>)]),
     PyDict([value |-> PyInt(1), color |-> HexBlue, label |-> PyInt(3)]),
     PyInt(3)}

\* the values of a transform field
TransformValues ==
    {PyDict(Field("type", type) @@ Field("scale", scale) @@ Field("offset", offset)) :
        type \in {Absent, PyStr("linear"), PyStr("none"), PyStr("k_to_c"), PyStr("zz")},
        scale \in {Absent, PyInt(2), PyFloat(2), PyStr("2")},
        offset \in {Absent, PyInt(2), PyFloat(2), PyStr("2")}}
    \cup {PyInt(5)}

\* the styles validate_style is given
StyleValues ==
    LET \* common fields of the wrong type, and of the right one
        Wrong == [name |-> PyInt(3), description |-> PyInt(3), units |-> PyList(<<>>),
                  transform |-> PyInt(5), range |-> PyStr("x"), legend |-> PyInt(5)]
        Right == [name |-> PyStr("Temperature"), description |-> PyStr("d"),
                  units |-> PyStr("K"), transform |-> PyDict([type |-> PyStr("none")]),
                  range |-> PyDict([min |-> PyInt(0), max |-> PyInt(1)]),
                  legend |-> PyDict([title |-> PyStr("T")])]
        CommonValues ==
            {<<>>, Wrong} \cup {f :> Wrong[f] : f \in DOMAIN Wrong}
                          \cup {f :> Right[f] : f \in DOMAIN Right}
        Stops == GoodGradient.d.stops
        \* a type that is valid, invalid or missing, with a payload
        Typed == {EmptyDict,
                  PyDict([stops |-> Stops]),
                  PyDict([type |-> PyStr("gradient"), stops |-> Stops]),
                  PyDict([type |-> PyStr("gradient")]),
                  PyDict([type |-> PyStr("contour")]),
                  PyDict([type |-> PyStr("contour"), contour |-> PyInt(3)]),
                  PyDict([type |-> PyStr("heatmap")]),
                  PyDict([type |-> PyStr("heatmap"), stops |-> PyInt(1)]),
                  PyDict([type |-> PyInt(5)])}
        WithColor(color) ==
            {PyDict([type |-> PyStr("gradient"),
                     stops |-> PyList(<<PyDict([value |-> PyInt(0), color |-> color]),
                                        PyDict([value |-> PyInt(1), color |-> HexRed])>>)]),
             PyDict([type |-> PyStr("contour"), contour |-> PyDict([line_color |-> color])]),
             PyDict([type |-> PyStr("wind_barbs"), wind |-> PyDict([color |-> color])]),
             PyDict([type |-> PyStr("wind_arrows"),
                     color_by_speed |->
                         PyDict([stops |-> PyList(<<PyDict([value |-> PyInt(0),
                                                            color |-> color])>>)])]),
             PyDict([type |-> PyStr("numbers"), numbers |-> PyDict([font_color |-> color])]),
             PyDict([type |-> PyStr("numbers"),
                     numbers |-> PyDict([background_color |-> color])])}
    IN {PyDict(common @@ typed.d) : common \in CommonValues, typed \in Typed}
       \cup {PyDict(Field("type", type) @@ Field("stops", stops)) :
                type \in {PyStr("gradient"), PyStr("filled_contour")},
                stops \in {Absent, PyInt(3)}
                          \cup {PyList(l) : l \in SeqsUpTo(StopValues, MaxStops)}}
       \cup {With(GoodGradient, "transform", transform) : transform \in TransformValues}
       \cup UNION {WithColor(color) : color \in ColorValues}

ValidateStyleInit ==
    /\ tool = "styles"
    /\ argv = <<>>
    /\ dir = {}
    /\ disk = <<>>
    /\ pc = "function"
    /\ NotStarted
    /\ fn_in \in [style : StyleValues]
    /\ fn_out = [done |-> FALSE]

\* one call validate_style("temp", style, "styles.temp", [], file)
ApplyValidateStyle ==
    /\ tool = "styles"
    /\ pc = "function"
    /\ ~fn_out.done
    /\ \E r \in {validate_style(StyleTemp, fn_in.style, <<"styles", StyleTemp>>)} :
          fn_out' = [done |-> TRUE, errors |-> r.errors, raised |-> r.raised]
    /\ UNCHANGED <<environment, dumper, pc, files, idx, all_layer_ids, total_errors, total_warnings,
                   exit_code, reported, call, first_seen, any_error, any_warning,
                   first, fn_in>>

SpecValidateStyle == ValidateStyleInit /\ [][ApplyValidateStyle]_vars

(***************************************************************************)
(* Properties of the style validator.                                      *)
(***************************************************************************)
\* C4: a run of the style validator that comes to its summary exits 1 when a
\* file yielded an error and 0 when none did; a run that finds no style file,
\* the schema example left aside, exits 1.
C4_StyleExitStatus ==
    pc = "exited" => exit_code = (IF files = <<>> \/ any_error THEN 1 ELSE 0)

\* C4 witness: a directory that holds the schema example and nothing else, and
\* the run exits 1
C4_OnlySchemaExample ==
    pc = "exited" /\ dir = {"schema.example.json"} /\ files = <<>> /\ exit_code = 1

(***************************************************************************)
(* A validator run twice on unchanged files.  The files are on `disk`; the *)
(* second process starts when the first has ended.                         *)
(***************************************************************************)

\* open(name) and the parse, on the files kept on disk
ReadFile(name) == IF name \in DOMAIN disk THEN disk[name] ELSE ReadFails("not_found")
\* the file the loop of main is about to validate, if any
NextFile == IF pc = "loop" /\ idx < Len(files) THEN {ReadFile(files[idx + 1])} ELSE {}

\* the process has ended: it is started again on the same files
Rerun ==
    /\ pc \in {"exited", "crashed"}
    /\ ~first.done
    /\ first' = [done |-> TRUE, pc |-> pc, exit_code |-> exit_code, reported |-> reported]
    /\ pc' = "start"
    /\ exit_code' = -1
    /\ UNCHANGED <<environment, dumper, files, idx, all_layer_ids, total_errors, total_warnings,
                   reported, call, first_seen, any_error, any_warning, fn_in, fn_out>>

RerunInit ==
    LET \* what the files hold in the repeated runs, a few of each validator's files
        RerunLayerFiles ==
            {ReadFails("syntax_error"),
             LayerDocument(PyList(<<RunLayer(IdGfsTemp)>>)),
             LayerDocument(PyList(<<RunLayer(IdNamTemp), RunLayer(IdGfsTemp)>>))}
        RerunModelFiles ==
            {ReadFails("unreadable"), ReadOk(GoodModel), ReadOk(Without(GoodModel, "retention")),
             ReadOk(Without(GoodModel, "grid"))}
        RerunStyleFiles ==
            {ReadFails("syntax_error"),
             ReadOk(StyleDocument(<<StyleTemp>>, StyleTemp :> GoodGradient)),
             ReadOk(StyleDocument(<<StyleTemp>>, StyleTemp :> Without(GoodGradient, "stops")))}
        RerunArgValues == {<<>>, <<"missing.yaml">>, <<"validate.py", "a.yaml">>}
    IN
        /\ \/ /\ tool = "layers"
              /\ argv = <<>>
              /\ dir \in {1..n : n \in 0..MaxFiles}
              /\ disk \in [dir -> RerunLayerFiles]
           \/ /\ tool = "models"
              /\ argv \in RerunArgValues
              /\ dir \in DirsUpTo(MaxFiles)
              /\ disk \in [dir -> RerunModelFiles]
           \/ /\ tool = "styles"
              /\ argv = <<>>
              /\ dir \in StyleDirsUpTo(MaxFiles)
              /\ disk \in [dir \ {"schema.example.json"} -> RerunStyleFiles]
        /\ pc = "start"
        /\ NotStarted
        /\ fn_in = None
        /\ fn_out = None

RerunNext ==
    \/ LayerMainStart
    \/ \E file \in NextFile : LayerMainValidate(file)
    \/ LayerMainSummary
    \/ ModelMainStart
    \/ ModelMainSkip
    \/ \E file \in NextFile : ModelMainValidate(file)
    \/ ModelMainSummary
    \/ StyleMainStart
    \/ \E file \in NextFile : StyleMainValidate(file)
    \/ StyleMainSummary
    \/ Rerun

\* a validator run, and run again
SpecRerun == RerunInit /\ [][RerunNext]_vars

CountPath(list, path) == Cardinality({i \in 1..Len(list) : list[i].path = path})

\* C13, as claimed: validate() runs all nine section checks (it returns); every
\* absent required section has exactly one error and the file is invalid; an absent
\* dimensions or retention has one warning and no error, an absent precaching or
\* composites no message
C13_SectionPresence ==
    fn_out.done =>
        /\ ~fn_out.raised
        /\ \A s \in {"model", "source", "grid", "schedule", "parameters"} :
              ~Has(fn_in.data, s) => CountPath(fn_out.errors, s) = 1 /\ ~fn_out.ret
        /\ \A s \in {"dimensions", "retention"} :
              ~Has(fn_in.data, s) =>
                  CountPath(fn_out.errors, s) = 0 /\ CountPath(fn_out.warnings, s) = 1
        /\ \A s \in {"precaching", "composites"} :
              ~Has(fn_in.data, s) =>
                  CountPath(fn_out.errors, s) = 0 /\ CountPath(fn_out.warnings, s) = 0

\* C14, as claimed: a document without the parameters section is invalid and has
\* exactly one error recorded under "parameters", whatever its other sections hold
C14_MissingParameters ==
    (fn_out.done /\ ~Has(fn_in.data, "parameters")) =>
        /\ ~fn_out.ret
        /\ CountPath(fn_out.errors, "parameters") = 1
        /\ \A i \in 1..Len(fn_out.errors) :
              fn_out.errors[i].path = "parameters"
                  => fn_out.errors[i].msg = "Missing required section 'parameters'"

\* the document has a grid.bbox mapping whose four bounds are numbers
FnNumericBbox ==
    /\ Has(fn_in.data, "grid") /\ IsDict(fn_in.data.d.grid)
    /\ Has(fn_in.data.d.grid, "bbox") /\ IsDict(fn_in.data.d.grid.d.bbox)
    /\ \A f \in {"min_lon", "min_lat", "max_lon", "max_lat"} :
          Has(fn_in.data.d.grid.d.bbox, f) /\ IsNumber(fn_in.data.d.grid.d.bbox.d[f])
\* number of errors of the grid check with the given message
FnGridErrors(msg) ==
    Cardinality({i \in 1..Len(fn_out.by_section.grid.errors) :
                    fn_out.by_section.grid.errors[i].msg = msg})

\* C15: for a bbox with numeric bounds the grid check records the error
\* "min_lon must be less than max_lon" exactly when min_lon >= max_lon, and
\* "min_lat must be less than max_lat" exactly when min_lat >= max_lat
C15_BboxOrder ==
    (fn_out.done /\ FnNumericBbox) =>
        LET bbox == fn_in.data.d.grid.d.bbox.d
        IN /\ FnGridErrors("min_lon must be less than max_lon")
                 = (IF NumberOf(bbox.min_lon) >= NumberOf(bbox.max_lon) THEN 1 ELSE 0)
           /\ FnGridErrors("min_lat must be less than max_lat")
                 = (IF NumberOf(bbox.min_lat) >= NumberOf(bbox.max_lat) THEN 1 ELSE 0)

\* C15 witness: equal longitudes were rejected, ordered latitudes were not
C15_EqualBoundsRejected ==
    /\ fn_out.done /\ FnNumericBbox
    /\ NumberOf(fn_in.data.d.grid.d.bbox.d.min_lon) = NumberOf(fn_in.data.d.grid.d.bbox.d.max_lon)
    /\ NumberOf(fn_in.data.d.grid.d.bbox.d.min_lat) < NumberOf(fn_in.data.d.grid.d.bbox.d.max_lat)
    /\ FnGridErrors("min_lon must be less than max_lon") = 1
    /\ FnGridErrors("min_lat must be less than max_lat") = 0
    /\ ~fn_out.ret

\* the document has a source mapping
FnSource == Has(fn_in.data, "source") /\ IsDict(fn_in.data.d.source)
\* source.type is a string
FnSourceTypeIsStr == Has(fn_in.data.d.source, "type") /\ IsStr(fn_in.data.d.source.d.type)
\* what the source check records under the given path
FnSourceCount(kind, path) == CountPath(fn_out.by_section.source[kind], path)

\* C16, as claimed: the source check records the bucket error for a missing bucket
\* and the region warning for a missing region exactly when source.type is one
\* of aws_s3, aws_s3_goes, aws_s3_grib2, and never a region error
C16_S3Sources ==
    (fn_out.done /\ FnSource) =>
        LET S3Family == /\ FnSourceTypeIsStr
                        /\ fn_in.data.d.source.d.type.cs
                              \in {AwsS3, AwsS3 \o <<"_", "g", "o", "e", "s">>,
                                   AwsS3 \o <<"_", "g", "r", "i", "b", "2">>}
        IN /\ FnSourceCount("errors", "source.bucket")
                 = (IF S3Family /\ ~Has(fn_in.data.d.source, "bucket") THEN 1 ELSE 0)
           /\ FnSourceCount("warnings", "source.region")
                 = (IF S3Family /\ ~Has(fn_in.data.d.source, "region") THEN 1 ELSE 0)
           /\ FnSourceCount("errors", "source.region") = 0

\* C16, amended: the bucket error and the region warning are recorded exactly when
\* source.type is a string that starts with "aws_s3", inside the vocabulary or not
C16_S3SourcesAmended ==
    (fn_out.done /\ FnSource) =>
        LET S3Prefix == /\ FnSourceTypeIsStr
                        /\ Len(fn_in.data.d.source.d.type.cs) >= Len(AwsS3)
                        /\ \A i \in 1..Len(AwsS3) : fn_in.data.d.source.d.type.cs[i] = AwsS3[i]
        IN /\ FnSourceCount("errors", "source.bucket")
                 = (IF S3Prefix /\ ~Has(fn_in.data.d.source, "bucket") THEN 1 ELSE 0)
           /\ FnSourceCount("warnings", "source.region")
                 = (IF S3Prefix /\ ~Has(fn_in.data.d.source, "region") THEN 1 ELSE 0)
           /\ FnSourceCount("errors", "source.region") = 0

\* C16 witness: a source of the type aws_s3_x, outside the vocabulary, without
\* bucket and region got the invalid-type error, the bucket error and the region
\* warning
C16_UnknownS3Type ==
    /\ fn_out.done /\ FnSource /\ FnSourceTypeIsStr
    /\ fn_in.data.d.source.d.type.cs = AwsS3 \o <<"_", "x">>
    /\ DOMAIN fn_in.data.d.source.d = {"type"}
    /\ FnSourceCount("errors", "source.type") = 1
    /\ FnSourceCount("errors", "source.bucket") = 1
    /\ FnSourceCount("warnings", "source.region") = 1

\* the levels of the first parameter of the document, when they are a list of mappings
FnLevels ==
    IF /\ Has(fn_in.data, "parameters") /\ IsList(fn_in.data.d.parameters)
       /\ fn_in.data.d.parameters.l # <<>> /\ IsDict(fn_in.data.d.parameters.l[1])
       /\ Has(fn_in.data.d.parameters.l[1], "levels")
       /\ IsList(fn_in.data.d.parameters.l[1].d.levels)
       /\ \A i \in 1..Len(fn_in.data.d.parameters.l[1].d.levels.l) :
             IsDict(fn_in.data.d.parameters.l[1].d.levels.l[i])
    THEN fn_in.data.d.parameters.l[1].d.levels.l
    ELSE <<>>
\* the messages of the given kind that the parameters check records for level i
\* (counted from 1) of the first parameter
FnLevelMessages(kind, i) ==
    {k \in 1..Len(fn_out.by_section.parameters[kind]) :
        fn_out.by_section.parameters[kind][k].at = <<0, i - 1>>}

\* C17, as claimed: a level without type, with an empty values list, or with
\* neither value nor values has an error and the file is invalid; a level whose
\* type is outside the vocabulary has a warning and no error for the type
C17_LevelRules ==
    fn_out.done =>
        \A i \in 1..Len(FnLevels) :
            LET level == FnLevels[i]
                Rejected == FnLevelMessages("errors", i) # {} /\ ~fn_out.ret
            IN /\ ~Has(level, "type") => Rejected
               /\ (Has(level, "values") /\ level.d.values = PyList(<<>>)) => Rejected
               /\ (~Has(level, "value") /\ ~Has(level, "values")) => Rejected
               /\ (Has(level, "type") /\ ~InVocabulary(level.d.type, VALID_LEVEL_TYPES)) =>
                     /\ \E k \in FnLevelMessages("warnings", i) :
                           fn_out.by_section.parameters.warnings[k].path = "{path}[{i}].type"
                     /\ \A k \in FnLevelMessages("errors", i) :
                           fn_out.by_section.parameters.errors[k].path # "{path}[{i}].type"

\* the composites of the document, when they are mappings with a name and a
\* requires list of strings, and parameters is absent or a list
FnComposites ==
    IF /\ Has(fn_in.data, "composites") /\ IsList(fn_in.data.d.composites)
       /\ \A i \in 1..Len(fn_in.data.d.composites.l) :
             LET comp == fn_in.data.d.composites.l[i]
             IN /\ IsDict(comp) /\ Has(comp, "name")
                /\ Has(comp, "requires") /\ IsList(comp.d.requires)
                /\ \A k \in 1..Len(comp.d.requires.l) : IsStr(comp.d.requires.l[k])
       /\ Has(fn_in.data, "parameters") => IsList(fn_in.data.d.parameters)
    THEN fn_in.data.d.composites.l
    ELSE <<>>
\* the names the parameters section of the document declares
FnDeclaredNames ==
    LET params == IF Has(fn_in.data, "parameters") THEN fn_in.data.d.parameters.l ELSE <<>>
    IN {params[i].d.name : i \in {j \in 1..Len(params) :
                                     IsDict(params[j]) /\ Has(params[j], "name")}}
\* the requires entries of composite i (counted from 1) that name no declared parameter
FnUnknownRequires(i) ==
    {k \in 1..Len(FnComposites[i].d.requires.l) :
        FnComposites[i].d.requires.l[k] \notin FnDeclaredNames}

\* C18: for a composite whose requires is a list, the composites check records one
\* warning for every entry that names no parameter declared in the file, none for
\* the other entries, and no error; a file whose only defect is such entries is valid
\* (the documents with composites are otherwise sound, but for an absent parameters)
C18_CompositeCrossReference ==
    (fn_out.done /\ FnComposites # <<>>) =>
        /\ \A i \in 1..Len(FnComposites) :
              Cardinality({k \in 1..Len(fn_out.by_section.composites.warnings) :
                              /\ fn_out.by_section.composites.warnings[k].path
                                    = "composites[{i}].requires"
                              /\ fn_out.by_section.composites.warnings[k].at = <<i - 1>>})
                  = Cardinality(FnUnknownRequires(i))
        /\ \A k \in 1..Len(fn_out.by_section.composites.warnings) :
              fn_out.by_section.composites.warnings[k].path = "composites[{i}].requires"
        /\ fn_out.by_section.composites.errors = <<>>
        /\ (\A i \in 1..Len(fn_out.errors) : fn_out.errors[i].path = "parameters")
              => (fn_out.ret <=> Has(fn_in.data, "parameters"))

\* C18 witness: a composite requiring a declared and an undeclared name got one
\* warning, and the file is valid
C18_UnknownReferenceWarns ==
    /\ fn_out.done /\ Len(FnComposites) = 1
    /\ Len(FnComposites[1].d.requires.l) = 2
    /\ Cardinality(FnUnknownRequires(1)) = 1
    /\ Len(fn_out.by_section.composites.warnings) = 1
    /\ fn_out.errors = <<>> /\ fn_out.ret

\* the document has a schedule mapping
FnSchedule == Has(fn_in.data, "schedule") /\ IsDict(fn_in.data.d.schedule)
\* schedule.type is "observation"
FnObservation ==
    /\ Has(fn_in.data.d.schedule, "type")
    /\ StrIs(fn_in.data.d.schedule.d.type, "observation")
\* the errors the schedule check records under the given path
FnScheduleErrors(path) ==
    {k \in 1..Len(fn_out.by_section.schedule.errors) :
        fn_out.by_section.schedule.errors[k].path = path}

\* C19: in a schedule whose type is not observation, every entry of a cycles list
\* that is not an integer in 0..23 has exactly one error carrying its index, and the
\* other entries none; in an observation schedule nothing is recorded for cycles or
\* forecast_hours
C19_Cycles ==
    (fn_out.done /\ FnSchedule) =>
        /\ (~FnObservation /\ Has(fn_in.data.d.schedule, "cycles")
              /\ IsList(fn_in.data.d.schedule.d.cycles)) =>
              LET cycles == fn_in.data.d.schedule.d.cycles.l
                  InRange(v) == v.t \in {"int", "bool"} /\ NumberOf(v) \in 0..23
              IN /\ \A i \in 1..Len(cycles) :
                        Cardinality({k \in FnScheduleErrors("schedule.cycles[{i}]") :
                                        fn_out.by_section.schedule.errors[k].at = <<i - 1>>})
                            = (IF InRange(cycles[i]) THEN 0 ELSE 1)
                 /\ \A k \in FnScheduleErrors("schedule.cycles[{i}]") :
                        fn_out.by_section.schedule.errors[k].at[1] \in 0..(Len(cycles) - 1)
        /\ FnObservation =>
              /\ \A path \in {"schedule.cycles", "schedule.cycles[{i}]", "schedule.forecast_hours",
                              "schedule.forecast_hours.{field}"} : FnScheduleErrors(path) = {}
              /\ fn_out.by_section.schedule.warnings = <<>>

\* C19 witness: of the cycles 24 and 0 of a forecast schedule, the first got
\* the one error
C19_HourOutOfRange ==
    /\ fn_out.done /\ FnSchedule /\ ~FnObservation
    /\ Has(fn_in.data.d.schedule, "cycles")
    /\ fn_in.data.d.schedule.d.cycles = PyList(<<PyInt(24), PyInt(0)>>)
    /\ Cardinality(FnScheduleErrors("schedule.cycles[{i}]")) = 1
    /\ \A k \in FnScheduleErrors("schedule.cycles[{i}]") :
          fn_out.by_section.schedule.errors[k].at = <<0>>

\* C20, as claimed: in a schedule whose type is not observation, a forecast_hours
\* value has no error exactly when it is a list, or a mapping whose start and end
\* are present integers with start less than end
C20_ForecastHours ==
    (fn_out.done /\ FnSchedule /\ ~FnObservation /\ Has(fn_in.data.d.schedule, "forecast_hours")) =>
        LET fh == fn_in.data.d.schedule.d.forecast_hours
            Ordered == /\ IsDict(fh) /\ Has(fh, "start") /\ Has(fh, "end")
                       /\ fh.d.start.t \in {"int", "bool"} /\ fh.d.end.t \in {"int", "bool"}
                       /\ NumberOf(fh.d.start) < NumberOf(fh.d.end)
        IN (FnScheduleErrors("schedule.forecast_hours") = {}
               /\ FnScheduleErrors("schedule.forecast_hours.{field}") = {})
              <=> (IsList(fh) \/ Ordered)

(***************************************************************************)
(* Properties of validate_file of the style validator, step by step.       *)
(***************************************************************************)
RECURSIVE Flatten(_)
\* the lists of a list, one after the other
Flatten(lists) == IF lists = <<>> THEN <<>> ELSE Head(lists) \o Flatten(Tail(lists))

\* the document under validation has a styles mapping
FnHasStyles ==
    IsDict(fn_in.data) /\ Has(fn_in.data, "styles") /\ IsDict(fn_in.data.d.styles)

\* the errors validate_file returns for a document without a defect of its
\* own whose styles mapping holds the entry alone, without the file name
FnAloneErrors(style_id, style) ==
    LET r == style_validate_file(ReadOk(StyleDocument(<<style_id>>, style_id :> style)),
                                 "a.json")
    IN [i \in 1..Len(r.errors) |->
           [path |-> r.errors[i].path, at |-> r.errors[i].at, msg |-> r.errors[i].msg]]

\* the first n entries of the styles mapping have been gone through, each
\* entry whose key does not start with "_" leaving the errors it has alone
FnEntriesDone(n) ==
    LET styles == fn_in.data.d.styles
    IN /\ fn_out.i = n
       /\ Len(fn_out.added) = n
       /\ \A i \in 1..n :
             fn_out.added[i] = IF StartsWith(styles.keys[i], <<"_">>) THEN <<>>
                               ELSE FnAloneErrors(styles.keys[i], styles.d[styles.keys[i]])
       /\ fn_out.errors = StyleDocumentChecks(fn_in.data).errors \o Flatten(fn_out.added)

\* C21, as claimed: once validate_file has entered the loop over a styles
\* mapping it ends only when every entry has been gone through, whatever was
\* found before; the error list is then the errors of the document followed by
\* the errors each entry has on its own; and no step removes or changes an
\* error already recorded
C21_NoEarlyExit ==
    /\ [](FnHasStyles /\ fn_out.at \in {"returned", "raised"}
             => FnEntriesDone(Len(fn_in.data.d.styles.keys)))
    /\ [][/\ Len(fn_out.errors) <= Len(fn_out'.errors)
          /\ SubSeq(fn_out'.errors, 1, Len(fn_out.errors)) = fn_out.errors]_vars

\* the errors recorded so far that are about the document itself
FnDocumentErrors ==
    SelectSeq(fn_out.errors,
              LAMBDA e : e.path \in {<<"root">>, <<"version">>, <<"metadata">>, <<"styles">>})

\* the document has no defect of its own
FnDocumentSound ==
    /\ IsDict(fn_in.data)
    /\ Has(fn_in.data, "version") /\ StrIs(fn_in.data.d.version, "1.0")
    /\ Has(fn_in.data, "metadata") => IsDict(fn_in.data.d.metadata)
    /\ Has(fn_in.data, "styles") /\ IsDict(fn_in.data.d.styles)

\* C23: once the document has been checked, there is no error about the
\* document itself if and only if version is "1.0", metadata is absent or a
\* mapping and styles is a mapping; an entry of styles whose key starts with
\* "_" is passed over, whatever it holds: it adds no error and nothing is
\* raised on it
C23_DocumentLevel ==
    fn_out.at # "document" =>
        /\ FnDocumentErrors = <<>> <=> FnDocumentSound
        /\ FnHasStyles =>
              LET keys == fn_in.data.d.styles.keys
              IN /\ \A i \in 1..Len(fn_out.added) :
                       StartsWith(keys[i], <<"_">>) => fn_out.added[i] = <<>>
                 /\ fn_out.at = "raised" => ~StartsWith(keys[fn_out.i + 1], <<"_">>)

\* C23 witness: validate_file has returned without any error for a sound
\* document whose first entry has a key starting with "_" and a type that no
\* style may have
C23_CommentSkipped ==
    /\ fn_out.at = "returned"
    /\ FnDocumentSound
    /\ fn_out.errors = <<>>
    /\ Len(fn_in.data.d.styles.keys) = 2
    /\ fn_in.data.d.styles.keys[1] = StyleComment
    /\ fn_in.data.d.styles.d[StyleComment] = PyDict([type |-> PyList(<<>>), name |-> PyInt(3)])

(***************************************************************************)
(* Properties of validate_style as a function.                             *)
(***************************************************************************)
\* the errors of the call recorded under the path styles.temp followed by rest
FnStyleErrors(rest) ==
    SelectSeq(fn_out.errors, LAMBDA e : e.path = <<"styles", StyleTemp>> \o rest)

\* the message of a common field that has the wrong type
FnCommonMessage ==
    [name |-> "Name must be string", description |-> "Description must be string",
     units |-> "Units must be string", transform |-> "Transform must be object",
     range |-> "Range must be object", legend |-> "Legend must be object"]

\* the style holds the common field with a value of the wrong type
FnWrongTyped(field) ==
    /\ Has(fn_in.style, field)
    /\ IF field \in {"name", "description", "units"}
       THEN ~IsStr(fn_in.style.d[field]) ELSE ~IsDict(fn_in.style.d[field])

\* the type of the style is one of VALID_STYLE_TYPES
FnTypeValid ==
    Has(fn_in.style, "type") /\ InVocabulary(fn_in.style.d.type, VALID_STYLE_TYPES)

\* C22, as claimed: for a style entry that is a mapping, each of the common
\* fields name, description, units, transform, range and legend that has the
\* wrong type yields its error, whether the type of the entry is valid, invalid
\* or missing and whatever the payload of the type is
C22_CommonFields ==
    fn_out.done /\ IsDict(fn_in.style) =>
        \A field \in DOMAIN FnCommonMessage :
            FnWrongTyped(field) =>
                /\ Len(FnStyleErrors(<<field>>)) = 1
                /\ FnStyleErrors(<<field>>)[1].msg = FnCommonMessage[field]

\* the style is a mapping of type gradient or filled_contour
FnGradient ==
    /\ IsDict(fn_in.style)
    /\ Has(fn_in.style, "type")
    /\ InVocabulary(fn_in.style.d.type, {"gradient", "filled_contour"})

\* the errors of the call that are about stops
FnStopErrors ==
    SelectSeq(fn_out.errors,
              LAMBDA e : \/ e.msg = "Style type requires 'stops' array"
                         \/ Len(e.path) >= 3 /\ e.path[3] = "stops")

\* a colour as the specification defines it: "transparent", or "#" followed by
\* 6 or by 8 hexadecimal digits
FnIsColor(v) ==
    /\ IsStr(v)
    /\ \/ v.cs = <<"t", "r", "a", "n", "s", "p", "a", "r", "e", "n", "t">>
       \/ /\ Len(v.cs) \in {7, 9}
          /\ v.cs[1] = "#"
          /\ \A i \in 2..Len(v.cs) :
                v.cs[i] \in {"0", "1", "2", "3", "4", "5", "6", "7", "8", "9",
                             "a", "b", "c", "d", "e", "f", "A", "B", "C", "D", "E", "F"}

\* a stop that is a mapping with a numeric value, a colour and, if any, a
\* label that is a string
FnGoodStop(stop) ==
    /\ IsDict(stop)
    /\ Has(stop, "value") /\ stop.d.value.t \in {"int", "float"}
    /\ Has(stop, "color") /\ FnIsColor(stop.d.color)
    /\ Has(stop, "label") => IsStr(stop.d.label)

\* C24: for a style of type gradient or filled_contour, a stops list of fewer
\* than 2 entries yields the error "at least 2 entries" and a missing stops
\* field yields an error; a stops list of 2 or more entries, all of them good
\* stops, yields no error about stops
C24_Stops ==
    fn_out.done /\ FnGradient =>
        LET style == fn_in.style
        IN /\ Has(style, "stops") /\ IsList(style.d.stops) /\ Len(style.d.stops.l) < 2 =>
                 /\ Len(FnStopErrors) = 1
                 /\ FnStopErrors[1].msg = "Stops must have at least 2 entries"
           /\ ~Has(style, "stops") =>
                 /\ Len(FnStopErrors) = 1
                 /\ FnStopErrors[1].msg = "Style type requires 'stops' array"
           /\ /\ Has(style, "stops") /\ IsList(style.d.stops) /\ Len(style.d.stops.l) >= 2
              /\ \A i \in 1..Len(style.d.stops.l) : FnGoodStop(style.d.stops.l[i])
              => FnStopErrors = <<>>

\* C24 witness: a gradient with exactly one stop, a good one, has been given
\* the error about the number of entries and no other
C24_SingleStop ==
    /\ fn_out.done
    /\ FnGradient
    /\ Has(fn_in.style, "stops") /\ IsList(fn_in.style.d.stops)
    /\ Len(fn_in.style.d.stops.l) = 1
    /\ FnGoodStop(fn_in.style.d.stops.l[1])
    /\ Len(fn_out.errors) = 1
    /\ fn_out.errors[1].msg = "Stops must have at least 2 entries"

\* the colour fields of the style that validate_style comes to: the value of
\* each and where it is, as the path below styles.temp and the index of the stop
FnColorFields ==
    LET style == fn_in.style
        type == style.d.type.s
        Member(key, field) ==
            IF Has(style, key) /\ IsDict(style.d[key]) /\ Has(style.d[key], field)
            THEN {[color |-> style.d[key].d[field], rest |-> <<key, field>>, at |-> <<>>]}
            ELSE {}
        StopColors(stops, prefix) ==
            {[color |-> stops.l[i].d.color,
              rest |-> prefix \o <<"stops", "[index]", "color">>, at |-> <<i - 1>>] :
                i \in {j \in 1..Len(stops.l) :
                          IsDict(stops.l[j]) /\ Has(stops.l[j], "color")}}
    IN CASE type \in {"gradient", "filled_contour"} ->
                IF Has(style, "stops") /\ IsList(style.d.stops) /\ Len(style.d.stops.l) >= 2
                THEN StopColors(style.d.stops, <<>>) ELSE {}
         [] type = "contour" -> Member("contour", "line_color")
         [] type \in {"wind_barbs", "wind_arrows"} ->
                Member("wind", "color")
                \cup (IF /\ Has(style, "color_by_speed") /\ IsDict(style.d.color_by_speed)
                         /\ Has(style.d.color_by_speed, "stops")
                         /\ IsList(style.d.color_by_speed.d.stops)
                      THEN StopColors(style.d.color_by_speed.d.stops, <<"color_by_speed">>)
                      ELSE {})
         [] type = "numbers" ->
                Member("numbers", "font_color") \cup Member("numbers", "background_color")

\* the errors of the call recorded for the colour field
FnColorErrors(field) ==
    SelectSeq(fn_out.errors,
              LAMBDA e : e.path = <<"styles", StyleTemp>> \o field.rest /\ e.at = field.at)

\* C25, as claimed: in every colour field (the color of a stop, line_color of
\* contour, color of wind, font_color and background_color of numbers) no
\* error is recorded if and only if the value is "transparent" or a string made
\* of "#" and exactly 6 or exactly 8 hexadecimal digits; every other value
\* records exactly one error
C25_ColorPredicate ==
    fn_out.done /\ IsDict(fn_in.style) /\ FnTypeValid =>
        \A field \in FnColorFields :
            Len(FnColorErrors(field)) = IF FnIsColor(field.color) THEN 0 ELSE 1

\* the style has a valid type and a transform that is a mapping with a type
\* of VALID_TRANSFORM_TYPES
FnTransform ==
    /\ IsDict(fn_in.style)
    /\ FnTypeValid
    /\ Has(fn_in.style, "transform")
    /\ IsDict(fn_in.style.d.transform)
    /\ Has(fn_in.style.d.transform, "type")
    /\ InVocabulary(fn_in.style.d.transform.d.type, VALID_TRANSFORM_TYPES)

\* the errors of the call about the transform
FnTransformErrors ==
    SelectSeq(fn_out.errors, LAMBDA e : Len(e.path) >= 3 /\ e.path[3] = "transform")

\* the transform holds the field and its value is an int or a float
FnNumeric(field) ==
    /\ Has(fn_in.style.d.transform, field)
    /\ fn_in.style.d.transform.d[field].t \in {"int", "float"}

\* C26, as claimed: a transform of type linear is accepted without error only
\* when scale and offset are both given as numbers; a transform of another
\* valid type is accepted whatever scale and offset are
C26_LinearTransform ==
    fn_out.done /\ FnTransform =>
        IF StrIs(fn_in.style.d.transform.d.type, "linear")
        THEN FnTransformErrors = <<>> => FnNumeric("scale") /\ FnNumeric("offset")
        ELSE FnTransformErrors = <<>>

\* C26, amended: scale and offset of a linear transform are optional; the
\* transform is accepted without error exactly when each of the two is absent
\* or a number, and a transform of another valid type is accepted whatever
\* scale and offset are
C26_LinearTransformAmended ==
    fn_out.done /\ FnTransform =>
        IF StrIs(fn_in.style.d.transform.d.type, "linear")
        THEN FnTransformErrors = <<>> <=>
                \A field \in {"scale", "offset"} :
                    Has(fn_in.style.d.transform, field) => FnNumeric(field)
        ELSE FnTransformErrors = <<>>

\* C26 witness: a linear transform with neither scale nor offset has been
\* accepted without error
C26_LinearWithoutScale ==
    /\ fn_out.done
    /\ FnTransform
    /\ fn_in.style.d.transform = PyDict([type |-> PyStr("linear")])
    /\ fn_out.errors = <<>>

(***************************************************************************)
(* EDR dumper: src/validation/edr_product_dump.py.  run() lists the        *)
(* collections, process_collection() fetches the details of each and calls *)
(* query_product() for its parameter/level pairs, and run() ends with the  *)
(* summary.  What the API answers to a request is chosen when the request  *)
(* is made, among the answers `api` allows.                                *)
(***************************************************************************)
\* the keys of parameter_names, in the order of the document
ParamNames == <<"TMP", "UGRD", "VGRD", "HGT">>

\* formats_to_query of query_product
formats_to_query(output_format) ==
    (IF output_format \in {"covjson", "both"} THEN <<"covjson">> ELSE <<>>)
    \o (IF output_format \in {"geojson", "both"} THEN <<"geojson">> ELSE <<>>)

\* what requests.get(url) and the handling of its response can come to:
\* requests.get raises; a status other than 200; status 200 with a body that
\* resp.json() cannot decode; status 200 with JSON that is no object; status
\* 200 with a coverage that has values, or has none; status 200 with features
RequestOutcomes(fmt) ==
    {"connection_error", "http_error", "undecodable", "not_an_object"}
    \cup (IF fmt = "covjson" THEN {"values", "no_values"} ELSE {"features"})

\* query_product, one iteration of `for fmt, fmt_param in formats_to_query`:
\* result["status"], result["error"] and what is appended to stats["errors"]
AfterRequest(state, outcome, coll_id, param) ==
    CASE outcome \in {"connection_error", "undecodable", "not_an_object"} ->
            [status |-> "failed", error |-> outcome,
             errors |-> Append(state.errors,
                               [collection |-> coll_id, param |-> param, error |-> outcome])]
      [] outcome = "http_error" ->
            [state EXCEPT !.status = "failed", !.error = "HTTP"]
      [] outcome = "values" -> [state EXCEPT !.status = "success"]
      [] outcome = "no_values" -> [state EXCEPT !.status = "empty"]
      [] outcome = "features" -> state

RECURSIVE RequestLoop(_, _, _, _)
\* query_product, the loop over formats_to_query
RequestLoop(state, outcomes, coll_id, param) ==
    IF outcomes = <<>> THEN state
    ELSE RequestLoop(AfterRequest(state, Head(outcomes), coll_id, param), Tail(outcomes),
                     coll_id, param)

\* mutant of query_product: a result whose status is still "unknown" is not counted
query_product_UnknownUncounted(coll_id, param, level, outcomes) ==
    LET end == RequestLoop([status |-> "unknown", error |-> "none", errors |-> stats.errors],
                           outcomes, coll_id, param)
        Plus(counter, status) == IF status THEN stats[counter] + 1 ELSE stats[counter]
    IN [stats |-> [total |-> stats.total + 1,
                   success |-> Plus("success", end.status = "success"),
                   empty |-> Plus("empty", end.status = "empty"),
                   failed |-> Plus("failed", end.status = "failed"),
                   errors |-> end.errors],
        result |-> [collection |-> coll_id, parameter |-> param, level |-> level,
                    status |-> end.status, error |-> end.error]]

\* query_product(coll_id, param, level, time, location_id), the requests
\* coming to `outcomes`: the result it appends and the stats it leaves
query_product(coll_id, param, level, outcomes) ==
    LET end == RequestLoop([status |-> "unknown", error |-> "none", errors |-> stats.errors],
                           outcomes, coll_id, param)
        Plus(counter, status) == IF status THEN stats[counter] + 1 ELSE stats[counter]
    IN [stats |-> [total |-> stats.total + 1,
                   success |-> Plus("success", end.status = "success"),
                   empty |-> Plus("empty", end.status = "empty"),
                   failed |-> Plus("failed", end.status \notin {"success", "empty"}),
                   errors |-> end.errors],
        result |-> [collection |-> coll_id, parameter |-> param, level |-> level,
                    status |-> end.status, error |-> end.error]]

\* process_collection, "Extract levels": sorted(set(levels)) of the first
\* bounds of the vertical intervals that are not None
LevelsOf(coll) ==
    Sorted({coll.vertical[i].n : i \in {j \in 1..Len(coll.vertical) : coll.vertical[j] # None}})

\* process_collection, `levels if levels else [None]`
LevelList(coll) ==
    IF LevelsOf(coll) # <<>> THEN [i \in 1..Len(LevelsOf(coll)) |-> PyInt(LevelsOf(coll)[i])]
    ELSE <<None>>

\* process_collection: the collection is left before its loop: its details
\* cannot be fetched, it has no parameters, or a locations query has no location
Skipped(coll) ==
    \/ coll.detail = "fails"
    \/ coll.parameter_names = <<>>
    \/ /\ args.query_type = "locations"
       /\ ~Truthy(args.location_id)
       /\ ~coll.location

\* a collection as the API advertises it: n parameters, the given vertical
\* intervals, and whether its locations hold one
Collection(id, detail, n, vertical, location) ==
    [id |-> id, detail |-> detail, parameter_names |-> SubSeq(ParamNames, 1, n),
     vertical |-> vertical, location |-> location]

\* the lists of collections of the runs that differ by what they crawl: one
\* collection of any kind, alone, or before or after a collection of a few kinds
Catalogues ==
    LET Verticals == SeqsUpTo({PyInt(500), PyInt(850)}, MaxLevels)
                     \cup {<<None>>, <<None, PyInt(500)>>}
        AnyKind(id) == {Collection(id, "fails", 1, <<>>, TRUE),
                    Collection(id, "ok", 0, <<PyInt(500)>>, TRUE)}
                      \cup {Collection(id, "ok", n, vertical, location) :
                               n \in 1..MaxParams, vertical \in Verticals,
                            location \in BOOLEAN}
        FewKinds(id) == {Collection(id, "fails", 1, <<>>, TRUE),
                    Collection(id, "ok", 1, <<>>, TRUE),
                    Collection(id, "ok", 2, <<PyInt(850), PyInt(500)>>, FALSE)}
    IN {<<c>> : c \in AnyKind("c1")}
       \cup {<<c, d>> : c \in AnyKind("c1"), d \in FewKinds("c2")}
       \cup {<<c, d>> : c \in FewKinds("c1"), d \in AnyKind("c2")}

\* the API answers every request with status 200 and data
AnswersWell == [covjson |-> {"values"}, geojson |-> {"features"}]
\* the API may answer a request in every way
AnswersAnyhow == [fmt \in {"covjson", "geojson"} |-> RequestOutcomes(fmt)]

DumperInit ==
    /\ tool = "dumper"
    /\ argv = <<>>
    /\ dir = {}
    /\ disk = <<>>
    /\ pc = "run"
    /\ NoValidator
    /\ fn_in = None
    /\ fn_out = None
    /\ \/ \* the runs that differ by what they crawl
          /\ api \in [listed : {TRUE}, collections : Catalogues, answers : {AnswersWell}]
          /\ args \in [limit : {None} \cup {PyInt(n) : n \in 0..MaxParams + 1},
                       output_format : {"both"},
                       query_type : {"position", "area", "locations"},
                       location_id : {None}]
                      \cup [limit : {None, PyInt(1)}, output_format : {"both"},
                            query_type : {"locations"}, location_id : {PyStr("KJFK")}]
       \/ \* the runs that differ by what the requests come to
          /\ api \in [listed : {TRUE},
                      collections : {<<Collection("c1", "ok", MaxQueries, <<>>, TRUE)>>},
                      answers : {AnswersAnyhow}]
          /\ args \in [limit : {None}, output_format : {"covjson", "geojson", "both"},
                       query_type : {"position"}, location_id : {None}]
       \/ \* the runs that list no collection
          /\ api \in [listed : BOOLEAN, collections : {<<>>}, answers : {AnswersWell}]
          /\ args \in [limit : {None}, output_format : {"both"},
                       query_type : {"position"}, location_id : {None}]
    /\ stats = [total |-> 0, success |-> 0, empty |-> 0, failed |-> 0, errors |-> <<>>]
    /\ results = <<>>
    /\ crawl = [at |-> "start", coll |-> 0, pair |-> 0, query_count |-> 0,
                calls |-> <<>>, summary |-> None]

\* what a step of the dumper leaves alone
DumperUnchanged ==
    UNCHANGED <<environment, pc, files, idx, all_layer_ids, total_errors, total_warnings,
                exit_code, reported, call, first_seen, any_error, any_warning, first,
                fn_in, fn_out, api, args>>

\* run(): fetch_collections(), and the return when it gives no collection
DumperRun ==
    /\ tool = "dumper"
    /\ crawl.at = "start"
    /\ crawl' = [crawl EXCEPT
                   !.at = IF api.listed /\ api.collections # <<>>
                          THEN "collections" ELSE "returned"]
    /\ UNCHANGED <<stats, results>>
    /\ DumperUnchanged

\* run(), `for coll in collections: self.process_collection(coll)`: the call,
\* up to the loop over the parameters
DumperProcessCollection ==
    /\ tool = "dumper"
    /\ crawl.at = "collections"
    /\ crawl.coll < Len(api.collections)
    /\ crawl' = [crawl EXCEPT
                   !.coll = @ + 1,
                   !.at = IF Skipped(api.collections[crawl.coll + 1])
                          THEN "collections" ELSE "queries",
                   !.pair = 0,
                   !.query_count = 0]
    /\ UNCHANGED <<stats, results>>
    /\ DumperUnchanged

\* the parameter/level pairs of the collection under way, in the order of the
\* two loops of process_collection
Pairs ==
    LET coll == api.collections[crawl.coll]
        level_list == LevelList(coll)
    IN [k \in 1..(Len(coll.parameter_names) * Len(level_list)) |->
           [param |-> coll.parameter_names[((k - 1) \div Len(level_list)) + 1],
            level |-> level_list[((k - 1) % Len(level_list)) + 1]]]

\* mutant of ReachedLimit: query_count > self.limit
ReachedLimit_OneMore ==
    /\ Truthy(args.limit)
    /\ crawl.query_count > args.limit.n

\* process_collection, `if self.limit and query_count >= self.limit`
ReachedLimit ==
    /\ Truthy(args.limit)
    /\ crawl.query_count >= args.limit.n

\* process_collection, one iteration of the inner loop that calls
\* query_product; `calls` keeps the call and what its requests came to
DumperQueryProduct ==
    /\ tool = "dumper"
    /\ crawl.at = "queries"
    /\ crawl.pair < Len(Pairs)
    /\ ~ReachedLimit
    /\ LET coll_id == api.collections[crawl.coll].id
           pair == Pairs[crawl.pair + 1]
           formats == formats_to_query(args.output_format)
       IN \E outcomes \in {o \in [1..Len(formats) -> UNION {RequestOutcomes(f) :
                                                              f \in {"covjson", "geojson"}}] :
                              \A i \in 1..Len(formats) : o[i] \in api.answers[formats[i]]} :
             LET q == query_product(coll_id, pair.param, pair.level, outcomes)
             IN /\ stats' = q.stats
                /\ results' = Append(results, q.result)
                /\ crawl' = [crawl EXCEPT
                               !.pair = @ + 1,
                               !.query_count = @ + 1,
                               !.calls = Append(@, [collection |-> coll_id,
                                                    param |-> pair.param,
                                                    level |-> pair.level,
                                                    formats |-> formats,
                                                    outcomes |-> outcomes])]
    /\ DumperUnchanged

\* process_collection, the return when the limit is reached
DumperReachedLimit ==
    /\ tool = "dumper"
    /\ crawl.at = "queries"
    /\ crawl.pair < Len(Pairs)
    /\ ReachedLimit
    /\ crawl' = [crawl EXCEPT !.at = "collections"]
    /\ UNCHANGED <<stats, results>>
    /\ DumperUnchanged

\* process_collection, the end of the two loops
DumperCollectionDone ==
    /\ tool = "dumper"
    /\ crawl.at = "queries"
    /\ crawl.pair = Len(Pairs)
    /\ crawl' = [crawl EXCEPT !.at = "collections"]
    /\ UNCHANGED <<stats, results>>
    /\ DumperUnchanged

\* run(), "Write summary": write_summary() puts the stats and the results in
\* results.json
DumperWriteSummary ==
    /\ tool = "dumper"
    /\ crawl.at = "collections"
    /\ crawl.coll = Len(api.collections)
    /\ crawl' = [crawl EXCEPT !.at = "summary",
                              !.summary = [stats |-> stats, results |-> results]]
    /\ UNCHANGED <<stats, results>>
    /\ DumperUnchanged

DumperNext ==
    \/ DumperRun
    \/ DumperProcessCollection
    \/ DumperQueryProduct
    \/ DumperReachedLimit
    \/ DumperCollectionDone
    \/ DumperWriteSummary

\* a run of the dumper
SpecDumper == DumperInit /\ [][DumperNext]_vars

\* a run of the dumper that goes on while it has a step to take: the
\* program is sequential and each request ends (timeout=60)
SpecDumperFair == SpecDumper /\ WF_vars(DumperNext)

(***************************************************************************)
(* Properties of the EDR dumper.                                           *)
(***************************************************************************)
\* the request failed: a network error, a status that is not 200, or a body
\* that cannot be decoded
RequestFailed(outcome) == outcome \in {"connection_error", "http_error", "undecodable"}

\* the query_product calls made so far that had a failed request
QueriesWithFailure ==
    {k \in 1..Len(crawl.calls) :
        \E i \in 1..Len(crawl.calls[k].outcomes) : RequestFailed(crawl.calls[k].outcomes[i])}

\* the collections of the API that process_collection does not leave before
\* its loop, by their position
Crawled == {c \in 1..Len(api.collections) : ~Skipped(api.collections[c])}

\* C27, as claimed: every failed request of a query marks the result of the
\* query as failed and has an entry in the error list of the stats; a request
\* is made once per format and never again; and the crawl is never cut short:
\* a run that listed collections comes to its summary, having queried, when no
\* limit is set, every pair of every collection it crawls
C27_FailuresRecorded ==
    /\ [](tool = "dumper" =>
            /\ \A k \in QueriesWithFailure : results[k].status = "failed"
            /\ \A k \in 1..Len(crawl.calls) :
                  /\ crawl.calls[k].formats = formats_to_query(args.output_format)
                  /\ Len(crawl.calls[k].outcomes) = Len(crawl.calls[k].formats)
                  /\ \A i \in 1..Len(crawl.calls[k].outcomes) :
                        RequestFailed(crawl.calls[k].outcomes[i]) =>
                            \E e \in 1..Len(stats.errors) :
                                stats.errors[e] = [collection |-> crawl.calls[k].collection,
                                                   param |-> crawl.calls[k].param,
                                                   error |-> crawl.calls[k].outcomes[i]]
            /\ crawl.at = "summary" /\ args.limit = None =>
                  \A c \in Crawled :
                      Cardinality({k \in 1..Len(crawl.calls) :
                                      crawl.calls[k].collection = api.collections[c].id})
                      = Len(api.collections[c].parameter_names)
                        * Len(LevelList(api.collections[c])))
    /\ (tool = "dumper" /\ crawl.at = "collections") ~> (crawl.at = "summary")

\* C29: total = success + empty + failed = number of results, whatever the
\* requests came to; a call of query_product adds exactly 1 to total and
\* exactly 1 to one of success, empty and failed, and no counter ever decreases
C29_CounterInvariant ==
    /\ [](tool = "dumper" =>
            /\ stats.total = stats.success + stats.empty + stats.failed
            /\ stats.total = Len(results))
    /\ [][tool = "dumper" =>
            /\ \A counter \in {"total", "success", "empty", "failed"} :
                  stats'[counter] >= stats[counter]
            /\ Len(results') = Len(results) + 1 =>
                  /\ stats'.total = stats.total + 1
                  /\ \E counter \in {"success", "empty", "failed"} :
                        /\ stats'[counter] = stats[counter] + 1
                        /\ \A other \in {"success", "empty", "failed"} \ {counter} :
                              stats'[other] = stats[other]
            /\ Len(results') # Len(results) + 1 => stats' = stats /\ results' = results]_vars

\* C29 witness: two queries were made, one with a coverage that has values
\* and one whose request met a network error; one is counted as a success and
\* the other as failed
C29_OneOfEach ==
    /\ tool = "dumper"
    /\ Len(crawl.calls) = 2
    /\ crawl.calls[1].outcomes = <<"values">>
    /\ crawl.calls[2].outcomes = <<"connection_error">>
    /\ stats.total = 2 /\ stats.success = 1 /\ stats.failed = 1 /\ stats.empty = 0

\* C30, as claimed: whatever the output format, a query is counted as failed
\* only if one of its requests failed; a query whose requests all returned
\* status 200 with JSON that can be decoded is counted as a success or as empty
C30_FailedOnlyOnFailure ==
    tool = "dumper" =>
        /\ \A k \in 1..Len(results) :
              results[k].status \notin {"success", "empty"} => k \in QueriesWithFailure
        /\ stats.failed <= Cardinality(QueriesWithFailure)

\* the query_product calls made for the collection, in the order they were made
CallsFor(c) == SelectSeq(crawl.calls, LAMBDA q : q.collection = api.collections[c].id)

\* the distinct levels the collection advertises
AdvertisedLevels(c) ==
    LET vertical == api.collections[c].vertical
    IN {vertical[i] : i \in 1..Len(vertical)} \ {None}

\* number of queries the collection is due: one per parameter and level, one
\* per parameter when it advertises no level, and at most N with a positive
\* --limit N
QueriesDue(c) ==
    LET pairs == Len(api.collections[c].parameter_names)
                 * (IF AdvertisedLevels(c) = {} THEN 1 ELSE Cardinality(AdvertisedLevels(c)))
    IN IF args.limit # None /\ args.limit.n > 0 /\ args.limit.n < pairs
       THEN args.limit.n ELSE pairs

\* the calls made for the collection are the first QueriesDue(c) pairs in
\* parameter-major order: the k-th call is for the parameter of rank
\* (k - 1) \div levels, no pair is queried twice, and the level is None exactly
\* when the collection advertises no level
CrawledInOrder(c) ==
    LET calls == CallsFor(c)
        coll == api.collections[c]
        per_param == IF AdvertisedLevels(c) = {} THEN 1 ELSE Cardinality(AdvertisedLevels(c))
    IN /\ Len(calls) = QueriesDue(c)
       /\ \A k \in 1..Len(calls) :
             /\ calls[k].param = coll.parameter_names[((k - 1) \div per_param) + 1]
             /\ IF AdvertisedLevels(c) = {} THEN calls[k].level = None
                ELSE calls[k].level \in AdvertisedLevels(c)
       /\ \A j, k \in 1..Len(calls) :
             calls[j].param = calls[k].param /\ calls[j].level = calls[k].level => j = k

\* C28, as claimed: when the run has come to its summary, every collection
\* whose details were fetched and that has parameters was queried once per
\* parameter/level pair in parameter-major order, up to the limit, whatever
\* the queries made for the collections before it
C28_CrawlShape ==
    tool = "dumper" /\ crawl.at = "summary" =>
        \A c \in 1..Len(api.collections) :
            api.collections[c].detail = "ok" /\ api.collections[c].parameter_names # <<>>
            => CrawledInOrder(c)

\* the collection has no location for a locations query that names none
WithoutLocation(c) ==
    /\ args.query_type = "locations"
    /\ args.location_id = None
    /\ ~api.collections[c].location

\* C28, amended: the same for every such collection that a locations query
\* can address (a location id was given, or the collection has a location);
\* a collection without location is not queried at all by a locations query
\* that names no location
C28_CrawlShapeAmended ==
    tool = "dumper" /\ crawl.at = "summary" =>
        \A c \in 1..Len(api.collections) :
            api.collections[c].detail = "ok" /\ api.collections[c].parameter_names # <<>>
            => IF WithoutLocation(c) THEN CallsFor(c) = <<>> ELSE CrawledInOrder(c)

\* C28 witness: a run with --limit 1 over two collections that both have more
\* than one pair has come to its summary with one query for each of them
C28_LimitPerCollection ==
    /\ tool = "dumper"
    /\ crawl.at = "summary"
    /\ args.limit = PyInt(1)
    /\ Len(api.collections) = 2
    /\ \A c \in 1..2 : Len(api.collections[c].parameter_names) = 2 /\ ~WithoutLocation(c)
    /\ Len(CallsFor(1)) = 1 /\ Len(CallsFor(2)) = 1
    /\ Len(crawl.calls) = 2

====
